---- MODULE Spec2Model ----
(***************************************************************************)
(* Model of AromaLinkClient (custom_components/aroma_link/aroma_link_api.py) *)
(* the per-device WebSocket session: start/stop, the supervisor loop with   *)
(* reconnect backoff, the three monitor tasks, the delayed re-poll task and *)
(* the inbound message handler with its clock-skew correction.               *)
(*                                                                           *)
(* asyncio is cooperative: a step of the model is the code a task runs       *)
(* between two suspension points (an awaited HTTP call, connect, recv,       *)
(* sleep, or the await of another task).                                     *)
(*                                                                           *)
(* Times are integers in milliseconds.  A remaining time the code keeps in   *)
(* (fractional) seconds is kept here in milliseconds, so 29.3 s is 29300.    *)
(***************************************************************************)
EXTENDS Integers, Sequences, FiniteSets, TLC

Devices == {"d1", "d2"}

(* ------------------------------ bounds --------------------------------- *)
\* Environment events of a behaviour, all devices together: a supervisor
\* spawned by start_websocket, an injected transport failure, an inbound frame.
MaxEvents == 3
\* The same budget when both devices have sessions.
MaxPairEvents == 3
\* Environment events in the study of the re-poll monitor's flags over more
\* than one duty cycle.
MaxRearmEvents == 4
\* The budget in the study of the clock-skew correction.
MaxMsgEvents == 2
\* Environment events (starts, frames, failures, API calls) of a behaviour of
\* the schedule study.
MaxScheduleEvents == 3
\* API calls (get_schedule, set_schedule) made in a behaviour.
MaxCalls == 1
\* Environment events of a behaviour of the set_schedule study.
MaxSetEvents == 2
\* Environment events of a behaviour of the re-poll monitor study.
MaxTickEvents == 3
\* Environment events of a behaviour of the setup study, the sessions the
\* setup starts included.
MaxSetupEvents == 2
\* Environment events of a behaviour of the countdown study, and the time
\* (ms) up to which its clock runs in steps of ClockStepMs.
MaxCountdownEvents == 2
MaxClockMs == 2000
ClockStepMs == 500
\* Environment events (registrations included) of a behaviour of the observer
\* study.
MaxObserverEvents == 3

(* ------------------------- program constants --------------------------- *)
BackoffFloor == 5
BackoffCap == 300
MaxNetworkDelayMs == 5000
MsPerSec == 1000
NumBlocks == 5
PollLimit == 50

Max(a, b) == IF a >= b THEN a ELSE b
Min(a, b) == IF a <= b THEN a ELSE b

\* Python's int(x) on a value given in milliseconds: truncation toward zero,
\* result in whole seconds.
IntTrunc(ms) == IF ms >= 0 THEN ms \div MsPerSec ELSE -((-ms) \div MsPerSec)

VARIABLES
    devices,          \* self.devices: the ids of the discovered devices
    ws_tasks,         \* self.ws_tasks: the devices with a registered supervisor
    ws_connections,   \* self._ws_connections: d -> "none" | "cur" | "old"
    ws_connected,     \* self._ws_connected.get(d, False)
    device_state,     \* self._device_state: d -> DutyCycleState (present or not)
    pc,               \* position of d's supervisor task (_websocket_handler)
    backoff,          \* the supervisor's local variable backoff
    sock,             \* the supervisor's websocket object: "none" | "open" | "closed"
    tasks,            \* the live monitor and delayed re-poll tasks
    stopPc,           \* position of a stop_websocket(d) call in progress
    stopGen,          \* generation of the supervisor that call cancelled (0: none)
    gen,              \* supervisors spawned so far for d (the session generation)
    retired,          \* highest generation of d whose stop_websocket has returned
    fails,            \* consecutive failures of d's supervisor: those since its
                      \* last successful open, or since it was spawned
    now,              \* time.time() in milliseconds
    eventsLeft,       \* environment events the behaviour may still take
    last,             \* the step just taken: [op, dev, gen, n]
    calls,            \* the get_schedule and set_schedule calls made so far
    callbacks,        \* self._callbacks: the registered observers, in order
    observed,         \* the last broadcast the observers were called with
    crossed           \* history: d's phase flipped since a re-poll monitor of d
                      \* last set one of its one-shot flags

vars == <<devices, ws_tasks, ws_connections, ws_connected, device_state, pc,
          backoff, sock, tasks, stopPc, stopGen, gen, retired, fails, now,
          eventsLeft, last, calls, callbacks, observed, crossed>>

\* last: "start" (n = 1: the device was already registered), "fail" (a failed
\* attempt; n = 1: it had opened the transport), "stop" (stop_websocket
\* returned; gen: the generation it cancelled, n = 1: close raised), "act" (a
\* monitor or delayed task of generation gen sent a frame, issued an HTTP
\* call, wrote state or broadcast), "step" (any other step of device dev).
Step(op, d, g, n) == [op |-> op, dev |-> d, gen |-> g, n |-> n]
Other(d) == Step("step", d, 0, 0)
Act(t) == Step("act", t.dev, t.gen, 0)
\* "recv": the supervisor of dev handled an inbound frame (n = 1: a frame
\* the handler dropped while decoding it).
Received(d, m) == Step("recv", d, 0, IF m.frame = "ok" THEN 0 ELSE 1)
\* n = 1 on "act" and "step": the step sent a SUPERCOMMAND frame on the
\* device's connection (ws.send of line 391 returned).
Sent(t) == Step("act", t.dev, t.gen, 1)
SentInit(d) == Step("step", d, 0, 1)

(* --------------------------- DutyCycleState ---------------------------- *)
\* One of the 5 disabled blocks _init_device_state creates.
InitBlock ==
    [start_time |-> "00:00", end_time |-> "00:00", work_duration |-> 10,
     pause_duration |-> 120, enabled |-> FALSE, consistency_level |-> 0,
     week_day |-> 0, has_days |-> TRUE, days |-> {}]

\* The dict _init_device_state stores; current_phase None is "None".
\* schedule_fetched is absent until first written: "absent" | "false" | "true".
InitState(t) ==
    [present |-> TRUE, current_phase |-> "None",
     work_remain_time |-> 0, pause_remain_time |-> 0,
     work_time |-> 0, pause_time |-> 0,
     waiting_for_response |-> FALSE, last_update_time |-> t,
     schedule_blocks |-> [i \in 1..NumBlocks |-> InitBlock],
     schedule_fetched |-> "absent"]

\* No entry in self._device_state.
NoState == [InitState(0) EXCEPT !.present = FALSE, !.schedule_blocks = <<>>]

\* _init_device_state: creates the entry only when the device has none.
InitDeviceState(ds, d, t) ==
    IF ds[d].present THEN ds ELSE [ds EXCEPT ![d] = InitState(t)]

(* --------------------------- inbound frames ---------------------------- *)
\* A frame as _handle_message sees it.  frame says how far decoding gets:
\*   "banner"  the literal connect banner,   "badjson" not valid JSON,
\*   "notdict" JSON but not an object,       "baddata" string data field that
\*   fails the second decode,                "ok"      a decoded message object.
\* sendTime is the top-level sendTime, the other fields are those of data.
\* A timestamp of 0 stands for an absent (None) or zero one: the code tests
\* truthiness, which does not tell them apart.
Frame(fr, ty, dev, st, ut, wr, pr, wt, pt, ws, isl, bl) ==
    [frame |-> fr, type |-> ty, deviceId |-> dev, sendTime |-> st,
     updateTime |-> ut, workRemainTime |-> wr, pauseRemainTime |-> pr,
     workTime |-> wt, pauseTime |-> pt, workStatus |-> ws,
     dataIsList |-> isl, blocks |-> bl]

\* One block of a WORK_TIME_FREQUENCY reply as sent by the server.
WireBlock(sh, eh, w, p, en, wd) ==
    [startHour |-> sh, endHour |-> eh, workSec |-> w, pauseSec |-> p,
     enabled |-> en, consistenceLevel |-> 1, weekDay |-> wd]

\* The parsed_block dict of _handle_message (it has no "days" key).
ParseBlock(b) ==
    [start_time |-> b.startHour, end_time |-> b.endHour,
     work_duration |-> b.workSec, pause_duration |-> b.pauseSec,
     enabled |-> (b.enabled = 1), consistency_level |-> b.consistenceLevel,
     week_day |-> b.weekDay, has_days |-> FALSE, days |-> {}]

\* total_elapsed_sec computed from the network delay alone.
TotalElapsedNetworkOnly(m, rt) ==
    IF m.sendTime # 0 /\ m.updateTime # 0
    THEN LET network_delay_ms == rt - m.sendTime
         IN  IF network_delay_ms < 0 THEN 0
             ELSE IF network_delay_ms > MaxNetworkDelayMs THEN 0
             ELSE network_delay_ms
    ELSE 0

\* total_elapsed_sec without the two clock-desync checks.
TotalElapsedUnchecked(m, rt) ==
    IF m.sendTime # 0 /\ m.updateTime # 0
    THEN (m.sendTime - m.updateTime) + (rt - m.sendTime)
    ELSE 0

\* total_elapsed_sec without the check for a negative network delay.
TotalElapsedNoDesyncCheck(m, rt) ==
    IF m.sendTime # 0 /\ m.updateTime # 0
    THEN IF rt - m.sendTime > MaxNetworkDelayMs THEN 0
         ELSE (m.sendTime - m.updateTime) + (rt - m.sendTime)
    ELSE 0

\* total_elapsed_sec of _handle_message, in milliseconds; rt is receive_time_ms.
TotalElapsedMs(m, rt) ==
    IF m.sendTime # 0 /\ m.updateTime # 0
    THEN LET state_age_ms == m.sendTime - m.updateTime
             network_delay_ms == rt - m.sendTime
         IN  IF network_delay_ms < 0 THEN 0
             ELSE IF network_delay_ms > MaxNetworkDelayMs THEN 0
             ELSE state_age_ms + network_delay_ms
    ELSE 0

\* max(0, raw - total_elapsed_sec), in milliseconds.
\* The correction without the clamp of lines 515-516.
CorrectedUnclamped(raw, m, rt) == raw * MsPerSec - TotalElapsedMs(m, rt)

Corrected(raw, m, rt) == Max(0, raw * MsPerSec - TotalElapsedMs(m, rt))

\* The SUPERCOMMAND branch for a reply whose deviceId matches the session.
ApplySupercommand(st, m, rt) ==
    [st EXCEPT !.last_update_time = rt,
               !.work_time = m.workTime,
               !.pause_time = m.pauseTime,
               !.work_remain_time = Corrected(m.workRemainTime, m, rt),
               !.pause_remain_time = Corrected(m.pauseRemainTime, m, rt),
               !.current_phase = IF m.workStatus = 1 THEN "work" ELSE "pause",
               !.waiting_for_response = FALSE]

\* The WORK_TIME_FREQUENCY branch: the blocks replace the cached ones.
ApplySchedule(st, m) ==
    [st EXCEPT !.schedule_blocks = [i \in 1..Len(m.blocks) |-> ParseBlock(m.blocks[i])],
               !.schedule_fetched = "true"]

\* Whether the reply is one the SUPERCOMMAND branch processes for session d.
Matches(m, d) == m.frame = "ok" /\ m.type = "SUPERCOMMAND" /\ m.deviceId = d

\* A handler that writes the state of the device the reply names.
HandleMessageOfNamedDevice(ds, d, m, rt) ==
    IF m.frame # "ok" THEN ds
    ELSE IF m.type = "WORK_TIME_FREQUENCY"
         THEN IF m.dataIsList /\ ds[d].present
              THEN [ds EXCEPT ![d] = ApplySchedule(ds[d], m)]
              ELSE ds
    ELSE IF m.type = "SUPERCOMMAND" /\ m.deviceId \in Devices
            /\ ds[m.deviceId].present
         THEN [ds EXCEPT ![m.deviceId] = ApplySupercommand(ds[m.deviceId], m, rt)]
    ELSE ds

\* A handler whose SUPERCOMMAND branch does not compare the reply's deviceId
\* with the session's device.
HandleMessageAnyDevice(ds, d, m, rt) ==
    IF m.frame # "ok" THEN ds
    ELSE IF m.type = "WORK_TIME_FREQUENCY"
         THEN IF m.dataIsList /\ ds[d].present
              THEN [ds EXCEPT ![d] = ApplySchedule(ds[d], m)]
              ELSE ds
    ELSE IF m.type = "SUPERCOMMAND" /\ ds[d].present
         THEN [ds EXCEPT ![d] = ApplySupercommand(ds[d], m, rt)]
    ELSE ds

\* _handle_message(message, d): the new self._device_state.  A schedule reply
\* for a device without an entry is written to a temporary dict and lost; a
\* matching state confirmation for a device without an entry raises KeyError,
\* which the handler's outer except swallows.
HandleMessage(ds, d, m, rt) ==
    IF m.frame # "ok" THEN ds
    ELSE IF m.type = "WORK_TIME_FREQUENCY"
         THEN IF m.dataIsList /\ ds[d].present
              THEN [ds EXCEPT ![d] = ApplySchedule(ds[d], m)]
              ELSE ds
    ELSE IF Matches(m, d) /\ ds[d].present
         THEN [ds EXCEPT ![d] = ApplySupercommand(ds[d], m, rt)]
    ELSE ds

\* A handler that reaches its callback loop for every frame.
NotifiesEveryFrame(ds, d, m) == ~(Matches(m, d) /\ ~ds[d].present)

\* Whether the handler reaches its callback loop for the frame.
Notifies(ds, d, m) == m.frame = "ok" /\ ~(Matches(m, d) /\ ~ds[d].present)

(* ------------------------------ observers ------------------------------ *)
\* The observers that may register with add_callback.
Observers == {"o1", "o2"}

\* The callback_data dict of _countdown_monitor, as a message: type
\* COUNTDOWN, data.deviceId, data.workStatus and the two display values.
Countdown(d, ws, w, p) ==
    Frame("ok", "COUNTDOWN", d, 0, 0, w, p, 0, 0, ws, FALSE, <<>>)

\* observed before any callback was called.
NoDelivery ==
    [msg |-> Frame("none", "", "", 0, 0, 0, 0, 0, 0, 0, FALSE, <<>>),
     to |-> <<>>, seen |-> NoState, flip |-> 0]

\* The observers whose handler raises when it is called.
Raising == {"bad"}

\* The observers a callback loop over cbs calls: the loop stands inside the
\* try block of its function, so the first handler that raises ends it.
Called(cbs) ==
    LET stops == {i \in 1..Len(cbs) : cbs[i] \in Raising}
    IN  IF stops = {} THEN cbs
        ELSE SubSeq(cbs, 1, CHOOSE i \in stops : \A j \in stops : i <= j)

\* "for callback in self._callbacks: await callback(m)": the observers are
\* called in order with m; seen is the DutyCycleState of the session at that
\* moment, flip changes with every broadcast.  Without a registered observer
\* nobody is called.
Deliver(obs, m, cbs, st) ==
    IF cbs = <<>> THEN obs
    ELSE [msg |-> m, to |-> Called(cbs), seen |-> st, flip |-> 1 - obs.flip]

(* ------------------------------- tasks --------------------------------- *)
\* A monitor or delayed re-poll task.  kind: "hb" _heartbeat, "sc"
\* _supercommand_monitor, "cd" _countdown_monitor, "dl" _delayed_supercommand.
\* gen is the generation of the supervisor whose connection spawned it.
\* pc "run": suspended in its sleep; "send_*": suspended in the HTTP call of
\* _send_supercommand, ws being the websocket object it fetched before
\* ("cur": the live supervisor's current one, "old": one already closed).
\* bpe, bwe, aps are sent_before_pause_ends, sent_before_work_ends and
\* sent_after_pause_starts; lastcd is last_countdown_value (None is -1).
\* sent is history: the re-polls the running iteration of a re-poll monitor
\* has put on the wire so far.
Task(k, d, g, p, w) ==
    [kind |-> k, dev |-> d, gen |-> g, pc |-> p, ws |-> w,
     bpe |-> FALSE, bwe |-> FALSE, aps |-> FALSE, lastcd |-> -1, sent |-> 0]

MonitorKinds == {"hb", "sc", "cd"}

\* The three create_task calls after a successful open.
Monitors(d, g) == {Task(k, d, g, "run", "none") : k \in MonitorKinds}

\* heartbeat_task.cancel(); supercommand_task.cancel(); countdown_task.cancel()
CancelMonitors(ts, d, g) ==
    {t \in ts : ~(t.dev = d /\ t.gen = g /\ t.kind \in MonitorKinds)}

\* The supervisor leaves its "async with websockets.connect" block: the
\* websocket object is closed, so every reference to it is to a closed one.
CloseSocket(ts, d) ==
    {IF t.dev = d /\ t.ws = "cur" THEN [t EXCEPT !.ws = "old"] ELSE t : t \in ts}

InTasks(d) == \E i \in 1..Len(ws_tasks) : ws_tasks[i] = d
Remove(seq, d) == SelectSeq(seq, LAMBDA x : x # d)

\* is_device_available
is_device_available(d) == ws_connected[d]

\* ws.send on the websocket object w fetched for device d goes through.
SendSucceeds(d, w) == w = "cur" /\ sock[d] = "open"

\* self._device_state[d]["waiting_for_response"] = True after a sent re-poll;
\* without an entry this raises KeyError, which _send_supercommand swallows.
MarkWaiting(ds, d) ==
    IF ds[d].present THEN [ds EXCEPT ![d].waiting_for_response = TRUE] ELSE ds

(* -------------------------- start_websocket ---------------------------- *)
\* start_websocket without its "already registered" test: every call creates
\* a supervisor and overwrites the device's entry in ws_tasks.
StartWebsocketUnguarded(d) ==
    /\ d \in devices
    /\ eventsLeft > 0
    /\ eventsLeft' = eventsLeft - 1
    /\ device_state' = InitDeviceState(device_state, d, now)
    /\ ws_connected' = [ws_connected EXCEPT ![d] = FALSE]
    /\ ws_tasks' = IF InTasks(d) THEN ws_tasks ELSE Append(ws_tasks, d)
    /\ gen' = [gen EXCEPT ![d] = @ + 1]
    /\ pc' = [pc EXCEPT ![d] = "activate"]
    /\ backoff' = [backoff EXCEPT ![d] = BackoffFloor]
    /\ fails' = [fails EXCEPT ![d] = 0]
    /\ last' = Step("start", d, 0, IF InTasks(d) THEN 1 ELSE 0)
    /\ UNCHANGED <<devices, ws_connections, sock, tasks, stopPc, stopGen, retired, now, calls, callbacks, observed, crossed>>

StartWebsocket(d) ==
    /\ d \in devices
    /\ IF InTasks(d)
       THEN /\ last' = Step("start", d, 0, 1)
            /\ UNCHANGED <<devices, ws_tasks, ws_connections, ws_connected, device_state, pc, backoff, sock, tasks, stopPc, stopGen, gen, retired, fails, now, eventsLeft, calls, callbacks, observed, crossed>>
       ELSE /\ eventsLeft > 0
            /\ eventsLeft' = eventsLeft - 1
            /\ device_state' = InitDeviceState(device_state, d, now)
            /\ ws_connected' = [ws_connected EXCEPT ![d] = FALSE]
            /\ ws_tasks' = Append(ws_tasks, d)
            /\ gen' = [gen EXCEPT ![d] = @ + 1]
            /\ pc' = [pc EXCEPT ![d] = "activate"]
            /\ backoff' = [backoff EXCEPT ![d] = BackoffFloor]
            /\ fails' = [fails EXCEPT ![d] = 0]
            /\ last' = Step("start", d, 0, 0)
            /\ UNCHANGED <<devices, ws_connections, sock, tasks, stopPc, stopGen, retired, now, calls, callbacks, observed, crossed>>

(* ------------------------- _websocket_handler -------------------------- *)
\* An except branch that starts the next attempt from a fresh DutyCycleState.
FailPathResetsState(d, cancelled) ==
    /\ ws_connected' = [ws_connected EXCEPT ![d] = FALSE]
    /\ ws_connections' = [ws_connections EXCEPT ![d] = "none"]
    /\ sock' = [sock EXCEPT ![d] = "none"]
    /\ tasks' = CloseSocket(IF cancelled THEN CancelMonitors(tasks, d, gen[d])
                                         ELSE tasks, d)
    /\ pc' = [pc EXCEPT ![d] = "backoff"]
    /\ fails' = [fails EXCEPT ![d] = @ + 1]
    /\ device_state' = [device_state EXCEPT ![d] = InitState(now)]
    /\ last' = Step("fail", d, 0, IF cancelled THEN 1 ELSE 0)
    /\ UNCHANGED <<devices, ws_tasks, backoff, stopPc, stopGen, gen, retired, now, calls, callbacks, observed, crossed>>

\* The except branch without the pop of the stored handle.
FailPathKeepsHandle(d, cancelled) ==
    /\ ws_connected' = [ws_connected EXCEPT ![d] = FALSE]
    /\ sock' = [sock EXCEPT ![d] = "none"]
    /\ tasks' = CloseSocket(IF cancelled THEN CancelMonitors(tasks, d, gen[d])
                                         ELSE tasks, d)
    /\ pc' = [pc EXCEPT ![d] = "backoff"]
    /\ fails' = [fails EXCEPT ![d] = @ + 1]
    /\ last' = Step("fail", d, 0, IF cancelled THEN 1 ELSE 0)
    /\ UNCHANGED <<devices, ws_tasks, ws_connections, device_state, backoff, stopPc, stopGen, gen, retired, now, calls, callbacks, observed, crossed>>

\* A supervisor without the except branch: the exception ends the task.
FailPathFatal(d, cancelled) ==
    /\ sock' = [sock EXCEPT ![d] = "none"]
    /\ tasks' = CloseSocket(IF cancelled THEN CancelMonitors(tasks, d, gen[d])
                                         ELSE tasks, d)
    /\ pc' = [pc EXCEPT ![d] = "none"]
    /\ fails' = [fails EXCEPT ![d] = @ + 1]
    /\ last' = Step("fail", d, 0, IF cancelled THEN 1 ELSE 0)
    /\ UNCHANGED <<devices, ws_tasks, ws_connections, ws_connected, device_state, backoff, stopPc, stopGen, gen, retired, now, calls, callbacks, observed, crossed>>

\* The except branch: mark disconnected, drop the handle, sleep(backoff).
\* cancelled says whether the failure left the receive loop, whose finally
\* cancels the three monitors.
FailPath(d, cancelled) ==
    /\ ws_connected' = [ws_connected EXCEPT ![d] = FALSE]
    /\ ws_connections' = [ws_connections EXCEPT ![d] = "none"]
    /\ sock' = [sock EXCEPT ![d] = "none"]
    /\ tasks' = CloseSocket(IF cancelled THEN CancelMonitors(tasks, d, gen[d])
                                         ELSE tasks, d)
    /\ pc' = [pc EXCEPT ![d] = "backoff"]
    /\ fails' = [fails EXCEPT ![d] = @ + 1]
    /\ last' = Step("fail", d, 0, IF cancelled THEN 1 ELSE 0)
    /\ UNCHANGED <<devices, ws_tasks, device_state, backoff, stopPc, stopGen, gen, retired, now, calls, callbacks, observed, crossed>>

\* The HTTP activate call returns.
ActivateOk(d) ==
    /\ pc[d] = "activate"
    /\ pc' = [pc EXCEPT ![d] = "connect"]
    /\ last' = Other(d)
    /\ UNCHANGED <<devices, ws_tasks, ws_connections, ws_connected, device_state, backoff, sock, tasks, stopPc, stopGen, gen, retired, fails, now, eventsLeft, calls, callbacks, observed, crossed>>

\* The HTTP activate call raises.
ActivateFail(d) ==
    /\ pc[d] = "activate"
    /\ eventsLeft > 0
    /\ eventsLeft' = eventsLeft - 1
    /\ FailPath(d, FALSE)

\* websockets.connect raises.
ConnectFail(d) ==
    /\ pc[d] = "connect"
    /\ eventsLeft > 0
    /\ eventsLeft' = eventsLeft - 1
    /\ FailPath(d, FALSE)

\* A supervisor that enters the receive loop right after the open, without
\* the two initial requests.
OpenSkipsInit(d) ==
    /\ pc[d] = "connect"
    /\ ws_connections' = [ws_connections EXCEPT ![d] = "cur"]
    /\ ws_connected' = [ws_connected EXCEPT ![d] = TRUE]
    /\ sock' = [sock EXCEPT ![d] = "open"]
    /\ tasks' = tasks \cup Monitors(d, gen[d])
    /\ pc' = [pc EXCEPT ![d] = "recv"]
    /\ fails' = [fails EXCEPT ![d] = 0]
    /\ last' = Other(d)
    /\ UNCHANGED <<devices, ws_tasks, device_state, backoff, stopPc, stopGen, gen, retired, now, eventsLeft, calls, callbacks, observed, crossed>>

\* websockets.connect succeeds: store the handle, mark connected, spawn the
\* three monitors and enter _send_supercommand up to its HTTP call.
Open(d) ==
    /\ pc[d] = "connect"
    /\ ws_connections' = [ws_connections EXCEPT ![d] = "cur"]
    /\ ws_connected' = [ws_connected EXCEPT ![d] = TRUE]
    /\ sock' = [sock EXCEPT ![d] = "open"]
    /\ tasks' = tasks \cup Monitors(d, gen[d])
    /\ pc' = [pc EXCEPT ![d] = "init_sc"]
    /\ fails' = [fails EXCEPT ![d] = 0]
    /\ last' = Other(d)
    /\ UNCHANGED <<devices, ws_tasks, device_state, backoff, stopPc, stopGen, gen, retired, now, eventsLeft, calls, callbacks, observed, crossed>>

\* The connect-time re-poll with waiting_for_response set before ws.send
\* instead of after it: a failed send leaves the flag set.
InitSupercommandMarksFirst(d) ==
    /\ pc[d] = "init_sc"
    /\ \E ok \in BOOLEAN :
         /\ ok => SendSucceeds(d, "cur")
         /\ IF ok \/ sock[d] # "open"
            THEN eventsLeft' = eventsLeft
            ELSE eventsLeft > 0 /\ eventsLeft' = eventsLeft - 1
         /\ device_state' = MarkWaiting(device_state, d)
         /\ last' = (IF ok THEN SentInit(d) ELSE Other(d))
    /\ pc' = [pc EXCEPT ![d] = "init_wtf"]
    /\ UNCHANGED <<devices, ws_tasks, ws_connections, ws_connected, backoff, sock, tasks, stopPc, stopGen, gen, retired, fails, now, calls, callbacks, observed, crossed>>

\* The initial _send_supercommand completes (ok: its HTTP call and send went
\* through; every exception is swallowed), then send_work_time_frequency runs
\* up to the HTTP call of get_schedule_for_day.
InitSupercommand(d) ==
    /\ pc[d] = "init_sc"
    /\ \E ok \in BOOLEAN :
         /\ ok => SendSucceeds(d, "cur")
         /\ IF ok \/ sock[d] # "open"
            THEN eventsLeft' = eventsLeft
            ELSE eventsLeft > 0 /\ eventsLeft' = eventsLeft - 1
         /\ device_state' = IF ok THEN MarkWaiting(device_state, d)
                                  ELSE device_state
         /\ last' = (IF ok THEN SentInit(d) ELSE Other(d))
    /\ pc' = [pc EXCEPT ![d] = "init_wtf"]
    /\ UNCHANGED <<devices, ws_tasks, ws_connections, ws_connected, backoff, sock, tasks, stopPc, stopGen, gen, retired, fails, now, calls, callbacks, observed, crossed>>

\* send_work_time_frequency completes (a missing handle or a failed send is
\* logged and swallowed) and the supervisor enters the receive loop.
InitWorkTimeFrequency(d) ==
    /\ pc[d] = "init_wtf"
    /\ pc' = [pc EXCEPT ![d] = "recv"]
    /\ last' = Other(d)
    /\ UNCHANGED <<devices, ws_tasks, ws_connections, ws_connected, device_state, backoff, sock, tasks, stopPc, stopGen, gen, retired, fails, now, eventsLeft, calls, callbacks, observed, crossed>>

\* The confirmation m, handled on d's connection, turns a known phase into
\* the other one (line 518).
Flips(ds, d, m) ==
    /\ Matches(m, d) /\ ds[d].present /\ ds[d].current_phase # "None"
    /\ ds[d].current_phase # (IF m.workStatus = 1 THEN "work" ELSE "pause")

\* websocket.recv() returns frame m, handled by _handle_message at time now.
Recv(d, m) ==
    /\ pc[d] = "recv"
    /\ sock[d] = "open"
    /\ eventsLeft > 0
    /\ eventsLeft' = eventsLeft - 1
    /\ device_state' = HandleMessage(device_state, d, m, now)
    /\ observed' = IF Notifies(device_state, d, m)
                   THEN Deliver(observed, m, callbacks,
                                HandleMessage(device_state, d, m, now)[d])
                   ELSE observed
    /\ last' = Received(d, m)
    /\ crossed' = [crossed EXCEPT ![d] = @ \/ Flips(device_state, d, m)]
    /\ UNCHANGED <<devices, ws_tasks, ws_connections, ws_connected, pc, backoff, sock, tasks, stopPc, stopGen, gen, retired, fails, now, calls, callbacks>>

\* websocket.recv() raises: the transport failed, or the websocket was closed
\* under the supervisor.
RecvFail(d) ==
    /\ pc[d] = "recv"
    /\ IF sock[d] = "open"
       THEN eventsLeft > 0 /\ eventsLeft' = eventsLeft - 1
       ELSE eventsLeft' = eventsLeft
    /\ FailPath(d, TRUE)

\* asyncio.sleep(backoff) returns: double the backoff, capped, and retry.
BackoffDone(d) ==
    /\ pc[d] = "backoff"
    /\ backoff' = [backoff EXCEPT ![d] = Min(@ * 2, BackoffCap)]
    /\ pc' = [pc EXCEPT ![d] = "activate"]
    /\ last' = Other(d)
    /\ UNCHANGED <<devices, ws_tasks, ws_connections, ws_connected, device_state, sock, tasks, stopPc, stopGen, gen, retired, fails, now, eventsLeft, calls, callbacks, observed, crossed>>

(* ----------------------------- _heartbeat ------------------------------ *)
\* One iteration of the heartbeat loop: leave when disconnected or without a
\* handle, send the keepalive, leave silently when the send fails.
HeartbeatTick(t) ==
    /\ t \in tasks /\ t.kind = "hb"
    /\ LET d == t.dev
           sent == ws_connected[d] /\ SendSucceeds(d, ws_connections[d])
       IN  /\ tasks' = IF sent THEN tasks ELSE tasks \ {t}
           /\ last' = (IF sent THEN Act(t) ELSE Other(d))
    /\ UNCHANGED <<devices, ws_tasks, ws_connections, ws_connected, device_state, pc, backoff, sock, stopPc, stopGen, gen, retired, fails, now, eventsLeft, calls, callbacks, observed, crossed>>

(* ------------------------ _supercommand_monitor ------------------------ *)
\* The three boundary tests and the two flag resets, on the values the
\* iteration read from the state at its start (remaining times in ms).
BeforePauseEnds(st, t) ==
    st.current_phase = "pause" /\ st.pause_remain_time = 1 * MsPerSec /\ ~t.bpe
AfterPauseStarts(st, t) ==
    st.current_phase = "pause"
    /\ st.pause_remain_time = (st.pause_time - 1) * MsPerSec /\ ~t.aps
BeforeWorkEnds(st, t) ==
    st.current_phase = "work" /\ st.work_remain_time = 1 * MsPerSec /\ ~t.bwe
ResetPause(st) ==
    st.current_phase = "pause" /\ st.pause_remain_time > 1 * MsPerSec
    /\ st.pause_remain_time < (st.pause_time - 1) * MsPerSec
ResetWork(st) ==
    st.current_phase = "work" /\ st.work_remain_time > 1 * MsPerSec
    /\ st.work_remain_time < (st.work_time - 1) * MsPerSec

\* The task after the flag resets at the end of an iteration.
ResetFlags(st, t) ==
    [t EXCEPT !.bpe = IF ResetPause(st) THEN FALSE ELSE @,
              !.aps = IF ResetPause(st) THEN FALSE ELSE @,
              !.bwe = IF ResetWork(st) THEN FALSE ELSE @]

\* "skip": the re-poll monitor of generation gen ran an iteration that found
\* waiting_for_response set (line 549) and went back to sleep.
Skipped(t) == Step("skip", t.dev, t.gen, 0)

\* An iteration that does not test waiting_for_response.
ScAfterStartIgnoresWaiting(st, t, conn) ==
    IF conn = "none"
    THEN ResetFlags(st, [t EXCEPT !.bpe = @ \/ BeforePauseEnds(st, t),
                                  !.aps = @ \/ AfterPauseStarts(st, t),
                                  !.bwe = @ \/ BeforeWorkEnds(st, t)])
    ELSE IF BeforePauseEnds(st, t)
         THEN [t EXCEPT !.ws = conn,
                        !.pc = IF AfterPauseStarts(st, t) THEN "send_bpe_aps"
                                                          ELSE "send_bpe"]
    ELSE IF AfterPauseStarts(st, t) THEN [t EXCEPT !.ws = conn, !.pc = "send_aps"]
    ELSE IF BeforeWorkEnds(st, t) THEN [t EXCEPT !.ws = conn, !.pc = "send_bwe"]
    ELSE ResetFlags(st, t)

\* The task when the iteration started on state st suspends or ends, conn
\* being the stored handle: without a handle _send_supercommand returns at
\* once and only the flags are set; with one the task suspends in the HTTP
\* call of the first due send.
ScAfterStart(st, t, conn) ==
    IF st.waiting_for_response THEN t
    ELSE IF conn = "none"
         THEN ResetFlags(st, [t EXCEPT !.bpe = @ \/ BeforePauseEnds(st, t),
                                       !.aps = @ \/ AfterPauseStarts(st, t),
                                       !.bwe = @ \/ BeforeWorkEnds(st, t)])
    ELSE IF BeforePauseEnds(st, t)
         THEN [t EXCEPT !.ws = conn,
                        !.pc = IF AfterPauseStarts(st, t) THEN "send_bpe_aps"
                                                          ELSE "send_bpe"]
    ELSE IF AfterPauseStarts(st, t) THEN [t EXCEPT !.ws = conn, !.pc = "send_aps"]
    ELSE IF BeforeWorkEnds(st, t) THEN [t EXCEPT !.ws = conn, !.pc = "send_bwe"]
    ELSE ResetFlags(st, t)

\* "pass": the re-poll monitor of generation gen ran an iteration that
\* found nothing to send and no flag to reset.
Passed(t) == Step("pass", t.dev, t.gen, 0)

\* The step from task t to task u set one of the three one-shot flags.
SetsFlag(t, u) ==
    (u.bpe /\ ~t.bpe) \/ (u.aps /\ ~t.aps) \/ (u.bwe /\ ~t.bwe)

\* An iteration starts (the sleep returned): leave when disconnected, else
\* run to the next suspension point.
SupercommandMonitorTick(t) ==
    /\ t \in tasks /\ t.kind = "sc" /\ t.pc = "run"
    /\ LET d == t.dev
           t2 == ScAfterStart(device_state[d], t, ws_connections[d])
       IN  IF ~ws_connected[d]
           THEN /\ tasks' = tasks \ {t}
                /\ last' = Other(d)
                /\ crossed' = crossed
           ELSE /\ tasks' = (tasks \ {t}) \cup {t2}
                /\ last' = IF t2.pc # "run" THEN Act(t)
                           ELSE IF t2 # t THEN Other(d)
                           ELSE IF device_state[d].waiting_for_response
                           THEN Skipped(t)
                           ELSE Passed(t)
                /\ crossed' = IF SetsFlag(t, t2)
                              THEN [crossed EXCEPT ![d] = FALSE]
                              ELSE crossed
    /\ UNCHANGED <<devices, ws_tasks, ws_connections, ws_connected, device_state, pc, backoff, sock, stopPc, stopGen, gen, retired, fails, now, eventsLeft, calls, callbacks, observed>>

\* A monitor that forgets to set the flag of the send it made.
ScAfterSendKeepsFlags(t, conn) ==
    IF t.pc = "send_bpe_aps" /\ conn # "none"
    THEN [t EXCEPT !.pc = "send_aps", !.ws = conn]
    ELSE [t EXCEPT !.pc = "run", !.ws = "none"]

\* The task after its suspended send completed: the send's flag is set; a
\* second due send ("just started" after "about to end") is entered, which
\* suspends again when a handle is stored.
ScAfterSend(t, conn) ==
    IF t.pc = "send_bpe" THEN [t EXCEPT !.bpe = TRUE, !.pc = "run", !.ws = "none"]
    ELSE IF t.pc = "send_bwe" THEN [t EXCEPT !.bwe = TRUE, !.pc = "run", !.ws = "none"]
    ELSE IF t.pc = "send_aps" THEN [t EXCEPT !.aps = TRUE, !.pc = "run", !.ws = "none"]
    ELSE IF conn = "none"
         THEN [t EXCEPT !.bpe = TRUE, !.aps = TRUE, !.pc = "run", !.ws = "none"]
    ELSE [t EXCEPT !.bpe = TRUE, !.pc = "send_aps", !.ws = conn]

\* The task u that follows t after a send, with the sends of the running
\* iteration counted: none once the iteration is over.
Counted(u, t, ok) ==
    [u EXCEPT !.sent = IF u.pc = "run" THEN 0
                       ELSE IF ok THEN t.sent + 1 ELSE t.sent]

\* The HTTP call of a monitor's _send_supercommand returns and the frame is
\* sent (ok) or an exception is swallowed.
SupercommandMonitorSend(t) ==
    /\ t \in tasks /\ t.kind = "sc" /\ t.pc # "run"
    /\ LET d == t.dev IN
       \E ok \in BOOLEAN :
         /\ ok => SendSucceeds(d, t.ws)
         /\ IF ok \/ ~SendSucceeds(d, t.ws)
            THEN eventsLeft' = eventsLeft
            ELSE eventsLeft > 0 /\ eventsLeft' = eventsLeft - 1
         /\ device_state' = IF ok THEN MarkWaiting(device_state, d)
                                  ELSE device_state
         /\ tasks' = (tasks \ {t}) \cup
                      {Counted(ScAfterSend(t, ws_connections[d]), t, ok)}
         /\ last' = (IF ok THEN Sent(t) ELSE Other(d))
         /\ crossed' = [crossed EXCEPT ![d] = FALSE]
    /\ UNCHANGED <<devices, ws_tasks, ws_connections, ws_connected, pc, backoff, sock, stopPc, stopGen, gen, retired, fails, now, calls, callbacks, observed>>

(* -------------------------- _countdown_monitor ------------------------- *)
\* A pause display that counts down also while the device works.
PauseCountdownAlwaysCounts(st, t) ==
    Max(0, IntTrunc(st.pause_remain_time - (t - st.last_update_time)))

\* The display countdowns of an iteration, in whole seconds.
WorkCountdown(st, t) ==
    IF st.current_phase = "work"
    THEN Max(0, IntTrunc(st.work_remain_time - (t - st.last_update_time)))
    ELSE st.work_time
PauseCountdown(st, t) ==
    IF st.current_phase = "work"
    THEN st.pause_time
    ELSE Max(0, IntTrunc(st.pause_remain_time - (t - st.last_update_time)))
ActiveCountdown(st, t) ==
    IF st.current_phase = "work" THEN WorkCountdown(st, t)
                                 ELSE PauseCountdown(st, t)

\* A zero test without the memory of the previous value: it holds in every
\* iteration that computes 0.
ZeroLevel(active, lastcd) == active = 0

\* Line 625: the active countdown is 0 and the value the previous iteration
\* remembered (None, -1, before the first) is not.
ZeroEdge(active, lastcd) == active = 0 /\ lastcd # 0

\* n = 2 on "act": the step created a _delayed_supercommand task.
Scheduled(t) == Step("act", t.dev, t.gen, 2)
\* n = 3 on "act": the step broadcast COUNTDOWN and created no task.
Shown(t) == Step("act", t.dev, t.gen, 3)

\* The callback_data of an iteration on state st at time tm.
CountdownData(d, st, tm) ==
    Countdown(d, IF st.current_phase = "work" THEN 1 ELSE 0,
              WorkCountdown(st, tm), PauseCountdown(st, tm))

\* "idle": the countdown monitor of generation gen ran an iteration that
\* found no state entry or no phase (lines 593-600) and went back to sleep.
Idle(t) == Step("idle", t.dev, t.gen, 0)

\* A countdown monitor that stores the value it displays as the new
\* remaining time of the active phase.
CountdownMonitorTickWritesBack(t) ==
    /\ t \in tasks /\ t.kind = "cd"
    /\ LET d == t.dev
           st == device_state[d]
           active == ActiveCountdown(st, now)
           edge == ZeroEdge(active, t.lastcd)
       IN  IF ~ws_connected[d]
           THEN /\ tasks' = tasks \ {t}
                /\ last' = Other(d)
                /\ UNCHANGED <<observed, device_state>>
           ELSE IF ~st.present \/ st.current_phase = "None"
           THEN /\ last' = Idle(t)
                /\ UNCHANGED <<tasks, observed, device_state>>
           ELSE /\ tasks' = ((tasks \ {t}) \cup {[t EXCEPT !.lastcd = active]})
                             \cup (IF edge THEN {Task("dl", d, t.gen, "sleep", "none")}
                                           ELSE {})
                /\ last' = (IF edge THEN Scheduled(t) ELSE Shown(t))
                /\ observed' = Deliver(observed, CountdownData(d, st, now),
                                       callbacks, st)
                /\ device_state' = [device_state EXCEPT ![d] =
                       IF st.current_phase = "work"
                       THEN [st EXCEPT !.work_remain_time = active * MsPerSec,
                                       !.last_update_time = now]
                       ELSE [st EXCEPT !.pause_remain_time = active * MsPerSec,
                                       !.last_update_time = now]]
    /\ UNCHANGED <<devices, ws_tasks, ws_connections, ws_connected, pc, backoff, sock, stopPc, stopGen, gen, retired, fails, now, eventsLeft, calls, callbacks, crossed>>

\* A countdown monitor that leaves out the broadcast in an iteration that
\* schedules the delayed re-poll.
CountdownMonitorTickQuietOnEdge(t) ==
    /\ t \in tasks /\ t.kind = "cd"
    /\ LET d == t.dev
           st == device_state[d]
           active == ActiveCountdown(st, now)
           edge == ZeroEdge(active, t.lastcd)
       IN  IF ~ws_connected[d]
           THEN /\ tasks' = tasks \ {t}
                /\ last' = Other(d)
                /\ observed' = observed
           ELSE IF ~st.present \/ st.current_phase = "None"
           THEN /\ last' = Idle(t)
                /\ UNCHANGED <<tasks, observed>>
           ELSE /\ tasks' = ((tasks \ {t}) \cup {[t EXCEPT !.lastcd = active]})
                             \cup (IF edge THEN {Task("dl", d, t.gen, "sleep", "none")}
                                           ELSE {})
                /\ last' = (IF edge THEN Scheduled(t) ELSE Shown(t))
                /\ observed' = IF edge THEN observed
                               ELSE Deliver(observed, CountdownData(d, st, now),
                                            callbacks, st)
    /\ UNCHANGED <<devices, ws_tasks, ws_connections, ws_connected, device_state, pc, backoff, sock, stopPc, stopGen, gen, retired, fails, now, eventsLeft, calls, callbacks, crossed>>

\* One iteration of the countdown loop: leave when disconnected; without an
\* entry or a phase just sleep; else schedule the delayed re-poll on the
\* zero edge, remember the value and broadcast COUNTDOWN.
CountdownMonitorTick(t) ==
    /\ t \in tasks /\ t.kind = "cd"
    /\ LET d == t.dev
           st == device_state[d]
           active == ActiveCountdown(st, now)
           edge == ZeroEdge(active, t.lastcd)
       IN  IF ~ws_connected[d]
           THEN /\ tasks' = tasks \ {t}
                /\ last' = Other(d)
                /\ observed' = observed
           ELSE IF ~st.present \/ st.current_phase = "None"
           THEN /\ last' = Idle(t)
                /\ UNCHANGED <<tasks, observed>>
           ELSE /\ tasks' = ((tasks \ {t}) \cup {[t EXCEPT !.lastcd = active]})
                             \cup (IF edge THEN {Task("dl", d, t.gen, "sleep", "none")}
                                           ELSE {})
                /\ last' = (IF edge THEN Scheduled(t) ELSE Shown(t))
                /\ observed' = Deliver(observed, CountdownData(d, st, now),
                                       callbacks, st)
    /\ UNCHANGED <<devices, ws_tasks, ws_connections, ws_connected, device_state, pc, backoff, sock, stopPc, stopGen, gen, retired, fails, now, eventsLeft, calls, callbacks, crossed>>

(* ------------------------ _delayed_supercommand ------------------------ *)
\* The 2 s sleep returns and _send_supercommand starts: without a stored
\* handle it returns at once, else it suspends in its HTTP call.
DelayedSupercommandWake(t) ==
    /\ t \in tasks /\ t.kind = "dl" /\ t.pc = "sleep"
    /\ LET d == t.dev IN
       IF ws_connections[d] = "none"
       THEN /\ tasks' = tasks \ {t}
            /\ last' = Other(d)
       ELSE /\ tasks' = (tasks \ {t}) \cup
                        {[t EXCEPT !.pc = "send", !.ws = ws_connections[d]]}
            /\ last' = Act(t)
    /\ UNCHANGED <<devices, ws_tasks, ws_connections, ws_connected, device_state, pc, backoff, sock, stopPc, stopGen, gen, retired, fails, now, eventsLeft, calls, callbacks, observed, crossed>>

\* The HTTP call returns and the frame is sent (ok) or an exception is
\* swallowed; the task ends.
DelayedSupercommandSend(t) ==
    /\ t \in tasks /\ t.kind = "dl" /\ t.pc = "send"
    /\ LET d == t.dev IN
       \E ok \in BOOLEAN :
         /\ ok => SendSucceeds(d, t.ws)
         /\ IF ok \/ ~SendSucceeds(d, t.ws)
            THEN eventsLeft' = eventsLeft
            ELSE eventsLeft > 0 /\ eventsLeft' = eventsLeft - 1
         /\ device_state' = IF ok THEN MarkWaiting(device_state, d)
                                  ELSE device_state
         /\ tasks' = tasks \ {t}
         /\ last' = (IF ok THEN Sent(t) ELSE Other(d))
    /\ UNCHANGED <<devices, ws_tasks, ws_connections, ws_connected, pc, backoff, sock, stopPc, stopGen, gen, retired, fails, now, calls, callbacks, observed, crossed>>

(* --------------------------- stop_websocket ---------------------------- *)
\* The calls after self._device_state.pop(d): a get_schedule call of d in
\* progress keeps the dict it fetched at line 712, which is no longer the
\* device's entry ("temp": a dict nobody else writes; the call carries its
\* two schedule fields from then on).
Detach(cs, d) ==
    [i \in 1..Len(cs) |->
        IF cs[i].op = "get" /\ cs[i].dev = d /\ cs[i].pc # "done"
                /\ cs[i].ref = "state"
        THEN [cs[i] EXCEPT !.ref = "temp",
                           !.fetched = device_state[d].schedule_fetched,
                           !.cached = device_state[d].schedule_blocks]
        ELSE cs[i]]

\* stop_websocket(d) returns: the device's state entry is dropped.  n tells
\* whether ws.close() raised (swallowed).
StopReturn(d, g, n) ==
    /\ device_state' = [device_state EXCEPT ![d] = NoState]
    /\ stopPc' = [stopPc EXCEPT ![d] = "idle"]
    /\ stopGen' = [stopGen EXCEPT ![d] = 0]
    /\ retired' = [retired EXCEPT ![d] = Max(@, g)]
    /\ last' = Step("stop", d, g, n)
    /\ calls' = Detach(calls, d)

\* stop_websocket(d) up to its first suspension point: mark disconnected, pop
\* and cancel the supervisor and await it.  The cancelled supervisor runs no
\* further statement of its loop: CancelledError leaves the receive loop
\* through its finally (the monitors are cancelled) only when the supervisor
\* was in it, and leaves the "async with" block, closing the websocket, when
\* the supervisor was inside it; the except branch is not taken, so the
\* stored handle stays.  Without a registered supervisor the call goes on to
\* the stored handle at once.
StopWebsocket(d) ==
    /\ d \in devices
    /\ stopPc[d] = "idle"
    /\ ws_connected' = [ws_connected EXCEPT ![d] = FALSE]
    /\ IF InTasks(d)
       THEN LET inBlock == pc[d] \in {"init_sc", "init_wtf", "recv"}
                kept == IF pc[d] = "recv" THEN CancelMonitors(tasks, d, gen[d])
                                          ELSE tasks
            IN  /\ ws_tasks' = Remove(ws_tasks, d)
                /\ pc' = [pc EXCEPT ![d] = "none"]
                /\ sock' = [sock EXCEPT ![d] = "none"]
                /\ tasks' = IF inBlock THEN CloseSocket(kept, d) ELSE kept
                /\ ws_connections' =
                       IF inBlock /\ ws_connections[d] = "cur"
                       THEN [ws_connections EXCEPT ![d] = "old"]
                       ELSE ws_connections
                /\ stopPc' = [stopPc EXCEPT ![d] = "await_task"]
                /\ stopGen' = [stopGen EXCEPT ![d] = gen[d]]
                /\ last' = Other(d)
                /\ UNCHANGED <<device_state, retired, calls>>
       ELSE IF ws_connections[d] # "none"
       THEN /\ ws_connections' = [ws_connections EXCEPT ![d] = "none"]
            /\ stopPc' = [stopPc EXCEPT ![d] = "await_close"]
            /\ last' = Other(d)
            /\ UNCHANGED <<ws_tasks, pc, sock, tasks, stopGen, device_state, retired, calls>>
       ELSE /\ StopReturn(d, 0, 0)
            /\ UNCHANGED <<ws_tasks, pc, sock, tasks, ws_connections>>
    /\ UNCHANGED <<devices, backoff, gen, fails, now, eventsLeft, callbacks, observed, crossed>>

\* "await task" returns: pop the stored handle and close it.  The handle may
\* by now be the websocket of a supervisor spawned meanwhile, which this
\* closes under it.
StopTaskDone(d) ==
    /\ stopPc[d] = "await_task"
    /\ IF ws_connections[d] = "none"
       THEN /\ StopReturn(d, stopGen[d], 0)
            /\ UNCHANGED <<ws_connections, sock>>
       ELSE /\ ws_connections' = [ws_connections EXCEPT ![d] = "none"]
            /\ sock' = [sock EXCEPT ![d] = IF ws_connections[d] = "cur"
                                           THEN "closed" ELSE @]
            /\ stopPc' = [stopPc EXCEPT ![d] = "await_close"]
            /\ last' = Other(d)
            /\ UNCHANGED <<device_state, stopGen, retired, calls>>
    /\ UNCHANGED <<devices, ws_tasks, ws_connected, pc, backoff, tasks, gen, fails, now, eventsLeft, callbacks, observed, crossed>>

\* "await ws.close()" returns or raises (raised: swallowed), then the state
\* entry is dropped and the call returns.
StopCloseDone(d) ==
    /\ stopPc[d] = "await_close"
    /\ \E raised \in BOOLEAN : StopReturn(d, stopGen[d], IF raised THEN 1 ELSE 0)
    /\ UNCHANGED <<devices, ws_tasks, ws_connections, ws_connected, pc, backoff, sock, tasks, gen, fails, now, eventsLeft, callbacks, observed, crossed>>

(* ------------------------------- frames -------------------------------- *)
Banner == Frame("banner", "", "", 0, 0, 0, 0, 0, 0, 0, FALSE, <<>>)

\* A state confirmation without timestamps.
Confirm(dev, wr, pr, wt, pt, ws) ==
    Frame("ok", "SUPERCOMMAND", dev, 0, 0, wr, pr, wt, pt, ws, FALSE, <<>>)

\* A schedule-frequency reply with one enabled block.
ScheduleReply ==
    Frame("ok", "WORK_TIME_FREQUENCY", "", 0, 0, 0, 0, 0, 0, 0, TRUE,
          <<WireBlock("07:30", "21:30", 10, 300, 1, 1)>>)

\* The frames a connection delivers in the session study: the banner, a
\* schedule reply, and for either device a confirmation at the end of work
\* (countdown 0) and one a second before the end of a pause.
SessionFrames ==
    {Banner, ScheduleReply}
    \cup {Confirm(dev, 0, 3, 2, 3, 1) : dev \in Devices}
    \cup {Confirm(dev, 2, 1, 2, 3, 0) : dev \in Devices}

(* ------------------------- session specification ----------------------- *)
\* The client after construction and device discovery: devs are the
\* discovered devices, e the environment's budget of events, t the clock,
\* cbs the observers the entities registered in their constructors.
InitClient(devs, e, t, cbs) ==
    /\ devices = devs
    /\ ws_tasks = <<>>
    /\ ws_connections = [d \in Devices |-> "none"]
    /\ ws_connected = [d \in Devices |-> FALSE]
    /\ device_state = [d \in Devices |-> NoState]
    /\ pc = [d \in Devices |-> "none"]
    /\ backoff = [d \in Devices |-> BackoffFloor]
    /\ sock = [d \in Devices |-> "none"]
    /\ tasks = {}
    /\ stopPc = [d \in Devices |-> "idle"]
    /\ stopGen = [d \in Devices |-> 0]
    /\ gen = [d \in Devices |-> 0]
    /\ retired = [d \in Devices |-> 0]
    /\ fails = [d \in Devices |-> 0]
    /\ now = t
    /\ eventsLeft = e
    /\ last = Step("init", "", 0, 0)
    /\ calls = <<>>
    /\ callbacks = cbs
    /\ observed = NoDelivery
    /\ crossed = [d \in Devices |-> FALSE]

\* The client without registered observers.
InitWith(devs, e, t) == InitClient(devs, e, t, <<>>)

Init == InitWith({"d1"}, MaxEvents, 0)

\* The steps of the client and its tasks, frames being the frames a
\* connection may deliver.
Session(frames) ==
    \/ \E d \in Devices : StartWebsocket(d)
    \/ \E d \in Devices : ActivateOk(d)
    \/ \E d \in Devices : ActivateFail(d)
    \/ \E d \in Devices : ConnectFail(d)
    \/ \E d \in Devices : Open(d)
    \/ \E d \in Devices : InitSupercommand(d)
    \/ \E d \in Devices : InitWorkTimeFrequency(d)
    \/ \E d \in Devices : \E m \in frames : Recv(d, m)
    \/ \E d \in Devices : RecvFail(d)
    \/ \E d \in Devices : BackoffDone(d)
    \/ \E t \in tasks : HeartbeatTick(t)
    \/ \E t \in tasks : SupercommandMonitorTick(t)
    \/ \E t \in tasks : SupercommandMonitorSend(t)
    \/ \E t \in tasks : CountdownMonitorTick(t)
    \/ \E t \in tasks : DelayedSupercommandWake(t)
    \/ \E t \in tasks : DelayedSupercommandSend(t)
    \/ \E d \in Devices : StopWebsocket(d)
    \/ \E d \in Devices : StopTaskDone(d)
    \/ \E d \in Devices : StopCloseDone(d)

Next == Session(SessionFrames)

Spec == Init /\ [][Next]_vars

\* The same steps, the timer of the supervisor's backoff sleep firing.
FairSpec == Spec /\ \A d \in Devices : WF_vars(BackoffDone(d))

(* ------------------------------ start/stop ----------------------------- *)
\* The live monitor tasks of the supervisor d has now.
LiveMonitors(d) ==
    {t \in tasks : t.dev = d /\ t.gen = gen[d] /\ t.kind \in MonitorKinds}

\* C1: a start_websocket(d) call made while a supervisor is registered for d
\* spawns no supervisor and leaves the session map, d's connected flag,
\* connection handle and DutyCycleState (and the supervisor's position) as
\* they were.
StartIsIdempotent ==
    [][\A d \in Devices :
         (last'.op = "start" /\ last'.dev = d /\ InTasks(d)) =>
             /\ ws_tasks' = ws_tasks
             /\ gen'[d] = gen[d]
             /\ pc'[d] = pc[d]
             /\ ws_connected'[d] = ws_connected[d]
             /\ ws_connections'[d] = ws_connections[d]
             /\ device_state'[d] = device_state[d]]_vars

\* A second start_websocket call returned on a connected session with state.
SecondStartOnLiveSession ==
    /\ last.op = "start" /\ last.n = 1
    /\ ws_connected[last.dev] /\ ws_connections[last.dev] = "cur"
    /\ device_state[last.dev].present
    /\ device_state[last.dev].current_phase # "None"

\* C2: when stop_websocket(d) returns, d has no registered supervisor, no
\* stored handle and no DutyCycleState, and is_device_available(d) is false.
StopLeavesNothing ==
    last.op = "stop" =>
        /\ ~InTasks(last.dev)
        /\ ws_connections[last.dev] = "none"
        /\ ~device_state[last.dev].present
        /\ ~is_device_available(last.dev)

\* C3: no heartbeat, re-poll monitor, countdown monitor or delayed re-poll
\* task acts (sends a frame, issues an HTTP call, writes state, broadcasts)
\* once the stop_websocket call that ended its session has returned.
NoActivityAfterStop ==
    last.op = "act" => last.gen > retired[last.dev]

\* C4: a failed attempt or a failed connection enters the backoff sleep with
\* d marked disconnected, its handle removed and the three monitors of the
\* connection cancelled, and the connected flag rises again only by a
\* successful open.
FailureMarksUnavailable ==
    [][\A d \in Devices :
         /\ (pc'[d] = "backoff" /\ last'.op = "fail" /\ last'.dev = d)
                => /\ ~ws_connected'[d]
                   /\ ws_connections'[d] = "none"
                   /\ LiveMonitors(d)' = {}
         /\ (pc'[d] = "backoff" /\ pc[d] = "backoff")
                => (~ws_connected'[d] /\ ws_connections'[d] = "none")
         /\ (~ws_connected[d] /\ ws_connected'[d])
                => (pc[d] = "connect" /\ pc'[d] = "init_sc")]_vars

\* An open connection with its three monitors failed in the receive loop.
FailedAfterOpen ==
    \E d \in Devices :
        /\ last.op = "fail" /\ last.dev = d /\ last.n = 1
        /\ pc[d] = "backoff"
        /\ ~is_device_available(d)

(* ------------------------------- backoff ------------------------------- *)
\* C5: the backoff value is within [5, 300], and the k-th consecutive failed
\* attempt sleeps min(5 * 2^(k-1), 300) seconds.
BackoffFollowsFailures ==
    \A d \in Devices :
        /\ backoff[d] >= BackoffFloor /\ backoff[d] <= BackoffCap
        /\ pc[d] = "backoff" =>
               backoff[d] = Min(BackoffFloor * 2^(fails[d] - 1), BackoffCap)

\* C6: the first failure that follows a successfully opened connection
\* sleeps the floor of 5 seconds.
OpenResetsBackoff ==
    \A d \in Devices :
        (last.op = "fail" /\ last.dev = d /\ last.n = 1 /\ pc[d] = "backoff")
            => backoff[d] = BackoffFloor

\* C7: a supervisor ends only by the cancel of stop_websocket, a failure
\* leaves it in its backoff sleep, and from the backoff sleep it goes on to
\* the activate call of another attempt unless it is stopped.
TransportErrorsNotFatal ==
    /\ [][\A d \in Devices :
            (pc[d] # "none" /\ pc'[d] = "none")
                => (stopPc[d] = "idle" /\ stopPc'[d] = "await_task")]_vars
    /\ [](\A d \in Devices :
            (last.op = "fail" /\ last.dev = d) => pc[d] = "backoff")
    /\ \A d \in Devices :
            (pc[d] = "backoff") ~> (pc[d] = "activate" \/ pc[d] = "none")

\* The supervisor is in the activate call of a retry after two failures.
RetriedAfterFailures ==
    \E d \in Devices :
        /\ pc[d] = "activate" /\ InTasks(d)
        /\ backoff[d] = 4 * BackoffFloor

(* ---------------------------- two devices ------------------------------ *)
\* Both discovered devices may have sessions.
PairInit == InitWith(Devices, MaxPairEvents, 0)

PairSpec == PairInit /\ [][Next]_vars

\* What the client holds for device b.
SessionOf(b) ==
    <<ws_connected[b], ws_connections[b], InTasks(b), pc[b], backoff[b],
      sock[b], {t \in tasks : t.dev = b}, device_state[b]>>

\* C8: a step of device a's session (a failure, a reconnect, a backoff, a
\* stop, a handled inbound frame, a step of one of its tasks) leaves the
\* connected flag, handle, supervisor, tasks and DutyCycleState of every
\* other device as they were.
SessionsIndependent ==
    [][\A b \in Devices : last'.dev # b => SessionOf(b)' = SessionOf(b)]_vars

\* Device a's connection failed while device b was connected with state.
FailedBesideLiveSession ==
    \E a, b \in Devices :
        /\ a # b
        /\ last.op = "fail" /\ last.dev = a /\ last.n = 1
        /\ ws_connected[b] /\ ws_connections[b] = "cur"
        /\ device_state[b].present

(* ------------------------ clock-skew correction ------------------------ *)
\* The local clock readings (ms) at which a reply is handled.
ReceiveTimes == {800, 1200, 6000, 6001}

\* A state confirmation for d1 of a device configured 30 s work, 120 s pause.
Reply(st, ut, wr, pr, ws) ==
    Frame("ok", "SUPERCOMMAND", "d1", st, ut, wr, pr, 30, 120, ws, FALSE, <<>>)

\* Replies sent at 1000 ms or without sendTime, the state updated before the
\* send, after it, or without updateTime: with ReceiveTimes the network
\* delay is -200, 200, 5000 or 5001 ms.
SkewFrames ==
    {Reply(st, ut, wr, pr, ws) :
        st \in {0, 1000}, ut \in {0, 500, 1500}, wr \in {0, 1, 30},
        pr \in {0, 120}, ws \in {0, 1}}

MsgInit == \E t \in ReceiveTimes : InitWith({"d1"}, MaxMsgEvents, t)

MsgNext == Session(SkewFrames)

MsgSpec == MsgInit /\ [][MsgNext]_vars

\* C9: a reply for the session's device with both timestamps and a network
\* delay within [0, 5000] ms stores, for work and for pause,
\* max(0, raw - ((send_time - update_time) + network_delay) / 1000).
SkewCorrected ==
    [][\A d \in Devices : \A m \in SkewFrames :
         (/\ Recv(d, m) /\ Matches(m, d) /\ device_state[d].present
          /\ m.sendTime # 0 /\ m.updateTime # 0
          /\ now - m.sendTime >= 0 /\ now - m.sendTime <= 5000)
         => LET elapsed == (m.sendTime - m.updateTime) + (now - m.sendTime)
            IN  /\ device_state'[d].work_remain_time =
                       Max(0, m.workRemainTime * 1000 - elapsed)
                /\ device_state'[d].pause_remain_time =
                       Max(0, m.pauseRemainTime * 1000 - elapsed)
                /\ device_state'[d].current_phase =
                       (IF m.workStatus = 1 THEN "work" ELSE "pause")]_vars

\* The reply of the example (raw 30 s, updated at T - 500, sent at T = 1000,
\* received at T + 200) was handled: phase work, 29.3 s of work remaining.
ExampleReplyStored ==
    /\ device_state["d1"].present
    /\ device_state["d1"].last_update_time = 1200
    /\ device_state["d1"].current_phase = "work"
    /\ device_state["d1"].work_remain_time = 29300
    /\ device_state["d1"].pause_remain_time = 119300

Today == 1

\* The days get_schedule is called for (Today also stands for a call
\* without the argument).
RequestDays == {Today, 2}

\* The filler block get_schedule pads with (it has a "days" key, no
\* "week_day" key: 0 as in InitBlock).
FillerBlock ==
    [start_time |-> "00:00", end_time |-> "00:00", work_duration |-> 10,
     pause_duration |-> 120, enabled |-> FALSE, consistency_level |-> 1,
     week_day |-> 0, has_days |-> TRUE, days |-> {}]

\* while len(schedule_blocks) < 5: append the filler.
Pad(blocks) ==
    IF Len(blocks) >= NumBlocks THEN blocks
    ELSE blocks \o [i \in 1..(NumBlocks - Len(blocks)) |-> FillerBlock]

\* A tagging loop that gives every untagged block the requested day.
TagBlockAlways(b, day) ==
    IF b.has_days THEN b ELSE [b EXCEPT !.has_days = TRUE, !.days = {day}]

\* block["days"] = [day] if enabled else [], for a block without "days".
TagBlock(b, day) ==
    IF b.has_days THEN b
    ELSE [b EXCEPT !.has_days = TRUE,
                   !.days = IF b.enabled THEN {day} ELSE {}]

\* The loop over schedule_blocks[:5]: only the first 5 blocks are tagged.
TagDays(blocks, day) ==
    [i \in 1..Len(blocks) |->
        IF i <= NumBlocks THEN TagBlock(blocks[i], day) ELSE blocks[i]]

\* A get_schedule that starts from a freshly initialised state dict.
ClearScheduleAndCountdown(st) ==
    [InitState(st.last_update_time) EXCEPT !.schedule_fetched = "false",
                                           !.schedule_blocks = <<>>]

\* The two writes of lines 713-714 on a state dict.
ClearSchedule(st) ==
    [st EXCEPT !.schedule_fetched = "false", !.schedule_blocks = <<>>]

\* A get_schedule call.  pc: "http" awaiting the trigger's response, "poll"
\* in the sleep of a poll iteration, "done" returned.  ref: "state" when the
\* dict fetched at line 712 is the device's DutyCycleState, "temp" when it is
\* a dict of its own (no entry existed, or the entry was popped since), whose
\* two schedule fields the call then carries in fetched and cached.  polls:
\* completed poll iterations; trig: the trigger returned 200; ret: "pending",
\* "None" or "blocks" (the returned list is blocks).
GetCall(d, day, ref) ==
    [op |-> "get", dev |-> d, day |-> day, pc |-> "http", ref |-> ref,
     fetched |-> "false", cached |-> <<>>, polls |-> 0, trig |-> FALSE,
     ret |-> "pending", blocks |-> <<>>]

\* The steps of API calls are recorded in last as "call", n the call's index.
CallStep(i) == Step("call", calls[i].dev, 0, i)

\* get_schedule(d, day) up to its HTTP trigger: fetch the state dict and
\* clear its two schedule fields.
GetScheduleCall(d, day) ==
    /\ d \in devices
    /\ Len(calls) < MaxCalls
    /\ eventsLeft > 0
    /\ eventsLeft' = eventsLeft - 1
    /\ IF device_state[d].present
       THEN /\ device_state' = [device_state EXCEPT ![d] = ClearSchedule(@)]
            /\ calls' = Append(calls, GetCall(d, day, "state"))
       ELSE /\ device_state' = device_state
            /\ calls' = Append(calls, GetCall(d, day, "temp"))
    /\ last' = Step("call", d, 0, Len(calls) + 1)
    /\ UNCHANGED <<devices, ws_tasks, ws_connections, ws_connected, pc, backoff, sock, tasks, stopPc, stopGen, gen, retired, fails, now, callbacks, observed, crossed>>

\* The trigger's response: status 200 starts the polling, another status or
\* an exception (caught at line 766) returns None.
GetScheduleHttp(i) ==
    /\ i \in 1..Len(calls)
    /\ calls[i].op = "get" /\ calls[i].pc = "http"
    /\ \E outcome \in {"200", "status", "raise"} :
         calls' = [calls EXCEPT ![i] =
                     IF outcome = "200"
                     THEN [@ EXCEPT !.pc = "poll", !.trig = TRUE]
                     ELSE [@ EXCEPT !.pc = "done", !.ret = "None"]]
    /\ last' = CallStep(i)
    /\ UNCHANGED <<devices, ws_tasks, ws_connections, ws_connected, device_state, pc, backoff, sock, tasks, stopPc, stopGen, gen, retired, fails, now, eventsLeft, callbacks, observed, crossed>>

\* The state dict the call holds, as far as the call reads it.
HeldFetched(c) ==
    IF c.ref = "state" THEN device_state[c.dev].schedule_fetched ELSE c.fetched
HeldBlocks(c) ==
    IF c.ref = "state" THEN device_state[c.dev].schedule_blocks ELSE c.cached

\* asyncio.sleep(0.1) of a poll iteration returns: when the held dict has
\* schedule_fetched set, its list is padded and its first 5 blocks tagged in
\* place and a copy of the first 5 is returned; else the next iteration
\* starts, or after the 50th the call returns None.
GetSchedulePoll(i) ==
    /\ i \in 1..Len(calls)
    /\ calls[i].op = "get" /\ calls[i].pc = "poll"
    /\ LET c == calls[i]
           full == TagDays(Pad(HeldBlocks(c)), c.day)
       IN  IF HeldFetched(c) = "true"
           THEN /\ calls' = [calls EXCEPT ![i] =
                               [c EXCEPT !.pc = "done", !.ret = "blocks",
                                         !.polls = @ + 1, !.cached = full,
                                         !.blocks = SubSeq(full, 1, NumBlocks)]]
                /\ device_state' =
                       IF c.ref = "state"
                       THEN [device_state EXCEPT ![c.dev].schedule_blocks = full]
                       ELSE device_state
           ELSE /\ calls' = [calls EXCEPT ![i] =
                               IF c.polls + 1 = PollLimit
                               THEN [c EXCEPT !.pc = "done", !.ret = "None",
                                              !.polls = @ + 1]
                               ELSE [c EXCEPT !.polls = @ + 1]]
                /\ device_state' = device_state
    /\ last' = CallStep(i)
    /\ UNCHANGED <<devices, ws_tasks, ws_connections, ws_connected, pc, backoff, sock, tasks, stopPc, stopGen, gen, retired, fails, now, eventsLeft, callbacks, observed, crossed>>

\* A schedule-frequency reply for one day: every block carries the day.
DayReply(blocks) ==
    Frame("ok", "WORK_TIME_FREQUENCY", "", 0, 0, 0, 0, 0, 0, 0, TRUE, blocks)

\* Today's schedule has an enabled and a disabled block, the other day's
\* six blocks.
ScheduleFrames ==
    {DayReply(<<WireBlock("07:30", "21:30", 10, 300, 1, Today),
                WireBlock("22:00", "23:00", 5, 60, 0, Today)>>),
     DayReply(<<WireBlock("06:00", "07:00", 5, 30, 1, 2),
                WireBlock("08:00", "09:00", 5, 30, 0, 2),
                WireBlock("10:00", "11:00", 5, 30, 1, 2),
                WireBlock("12:00", "13:00", 5, 30, 1, 2),
                WireBlock("14:00", "15:00", 5, 30, 1, 2),
                WireBlock("16:00", "17:00", 5, 30, 1, 2)>>)}

\* The frames of the schedule study: the two replies and a confirmation a
\* second before the end of a pause.
ScheduleStudyFrames == ScheduleFrames \cup {Confirm("d1", 2, 1, 2, 3, 0)}

\* The day a schedule reply is for.
DayOf(m) == m.blocks[1].weekDay

\* The server sends a day's schedule on d's connection in answer to a
\* trigger for that day: the connect-time request of
\* send_work_time_frequency (Today) or a get_schedule call's trigger.
Solicited(d, m) ==
    \/ m.type # "WORK_TIME_FREQUENCY"
    \/ DayOf(m) = Today
    \/ \E i \in 1..Len(calls) :
         calls[i].op = "get" /\ calls[i].dev = d /\ calls[i].trig
             /\ calls[i].day = DayOf(m)

ScheduleInit == InitWith({"d1"}, MaxScheduleEvents, 0)

ScheduleNext ==
    \/ Session({m \in ScheduleStudyFrames : Solicited("d1", m)})
    \/ \E d \in Devices : \E day \in RequestDays : GetScheduleCall(d, day)
    \/ \E i \in 1..Len(calls) : GetScheduleHttp(i)
    \/ \E i \in 1..Len(calls) : GetSchedulePoll(i)

ScheduleSpec == ScheduleInit /\ [][ScheduleNext]_vars

(* ----------------------------- set_schedule ---------------------------- *)
\* str(n) of a non-negative integer: its decimal digits, one character each.
DigitChars == <<"0", "1", "2", "3", "4", "5", "6", "7", "8", "9">>
RECURSIVE Str(_)
Str(n) ==
    IF n < 10 THEN <<DigitChars[n + 1]>>
    ELSE Str(n \div 10) \o <<DigitChars[(n % 10) + 1]>>

AllDays == 0..6

\* sorted(list(S)) for a set of integers.
RECURSIVE Sorted(_)
Sorted(S) ==
    IF S = {} THEN <<>>
    ELSE LET lo == CHOOSE x \in S : \A y \in S : x <= y
         IN  <<lo>> \o Sorted(S \ {lo})

\* A block descriptor of the caller; has_days tells whether it has the
\* "days" key.
Descriptor(st, en, w, p, enabled, has_days, days) ==
    [start_time |-> st, end_time |-> en, work_duration |-> w,
     pause_duration |-> p, enabled |-> enabled, has_days |-> has_days,
     days |-> days]

\* The arguments of a call: has_blocks is "schedule_blocks is not None";
\* -1 stands for a legacy parameter that is None.
SetArgs(has_blocks, blocks, work, pause) ==
    [has_blocks |-> has_blocks, blocks |-> blocks, work |-> work, pause |-> pause]

\* Lines 190-200: the list the call works on, legacy mode included.
EffectiveBlocks(a) ==
    IF ~a.has_blocks /\ (a.work # -1 \/ a.pause # -1)
    THEN <<Descriptor("00:00", "23:59",
                      IF a.work \in {-1, 0} THEN 10 ELSE a.work,
                      IF a.pause \in {-1, 0} THEN 120 ELSE a.pause,
                      TRUE, TRUE, AllDays)>>
    ELSE IF a.has_blocks THEN a.blocks ELSE <<>>

\* The entry posted for an enabled descriptor, and the disabled filler.
WorkEntry(b) ==
    [startTime |-> b.start_time, endTime |-> b.end_time,
     workDuration |-> Str(b.work_duration),
     pauseDuration |-> Str(b.pause_duration),
     enabled |-> 1, consistenceLevel |-> 1]

FillerEntry ==
    [startTime |-> "00:00", endTime |-> "00:00",
     workDuration |-> <<"1", "0">>, pauseDuration |-> <<"1", "2", "0">>,
     enabled |-> 0, consistenceLevel |-> 1]

\* A list builder that posts a provided disabled descriptor with its own
\* values instead of the filler.
WorkTimeListAsProvided(blocks) ==
    [i \in 1..NumBlocks |->
        IF i <= Len(blocks)
        THEN [WorkEntry(blocks[i]) EXCEPT
                 !.enabled = IF blocks[i].enabled THEN 1 ELSE 0]
        ELSE FillerEntry]

\* The loop of lines 210-232.
WorkTimeList(blocks) ==
    [i \in 1..NumBlocks |->
        IF i <= Len(blocks) /\ blocks[i].enabled
        THEN WorkEntry(blocks[i]) ELSE FillerEntry]

\* active_days after the loop: the days of the enabled descriptors among
\* the first 5, all 7 for one without the "days" key.
ActiveDays(blocks) ==
    UNION {IF blocks[i].has_days THEN blocks[i].days ELSE AllDays :
              i \in {j \in 1..Min(NumBlocks, Len(blocks)) : blocks[j].enabled}}

\* A week that is the sorted active days even when there are none.
WeekArrayOfActiveDays(blocks) == Sorted(ActiveDays(blocks))

\* Line 235.
WeekArray(blocks) ==
    IF ActiveDays(blocks) # {} THEN Sorted(ActiveDays(blocks)) ELSE Sorted(AllDays)

\* The JSON body of the POST (userId left out).
Payload(d, blocks) ==
    [deviceId |-> d, workTimeList |-> WorkTimeList(blocks),
     week |-> WeekArray(blocks)]

NoPayload == [deviceId |-> "", workTimeList |-> <<>>, week |-> <<>>]

\* A set_schedule call.  pc: "post" awaiting the response of the POST,
\* "done" returned; posts: POST requests issued; status: the outcome of the
\* POST ("200", "status" for another status, "raise"; "none" before);
\* ret: "pending", "True" or "False".
SetCall(d, a, posted) ==
    [op |-> "set", dev |-> d, args |-> a,
     pc |-> IF posted THEN "post" ELSE "done",
     posts |-> IF posted THEN 1 ELSE 0, status |-> "none",
     payload |-> IF posted THEN Payload(d, EffectiveBlocks(a)) ELSE NoPayload,
     ret |-> IF posted THEN "pending" ELSE "False"]

\* set_schedule(d, ...) up to its POST; without blocks it returns False at
\* once (lines 202-204).
SetScheduleCall(d, a) ==
    /\ d \in devices
    /\ Len(calls) < MaxCalls
    /\ eventsLeft > 0
    /\ eventsLeft' = eventsLeft - 1
    /\ calls' = Append(calls, SetCall(d, a, EffectiveBlocks(a) # <<>>))
    /\ last' = Step("call", d, 0, Len(calls) + 1)
    /\ UNCHANGED <<devices, ws_tasks, ws_connections, ws_connected, device_state, pc, backoff, sock, tasks, stopPc, stopGen, gen, retired, fails, now, callbacks, observed, crossed>>

\* A set_schedule that posts again after a failed POST.
SetScheduleHttpRetries(i) ==
    /\ i \in 1..Len(calls)
    /\ calls[i].op = "set" /\ calls[i].pc = "post"
    /\ \E outcome \in {"200", "status", "raise"} :
         calls' = [calls EXCEPT ![i] =
                     IF outcome = "200"
                     THEN [@ EXCEPT !.pc = "done", !.status = outcome, !.ret = "True"]
                     ELSE IF @.posts = 1
                     THEN [@ EXCEPT !.posts = 2, !.status = outcome]
                     ELSE [@ EXCEPT !.pc = "done", !.status = outcome, !.ret = "False"]]
    /\ last' = CallStep(i)
    /\ UNCHANGED <<devices, ws_tasks, ws_connections, ws_connected, device_state, pc, backoff, sock, tasks, stopPc, stopGen, gen, retired, fails, now, eventsLeft, callbacks, observed, crossed>>

\* The response of the POST: True on status 200, False on another status
\* or on an exception (caught at line 257).
SetScheduleHttp(i) ==
    /\ i \in 1..Len(calls)
    /\ calls[i].op = "set" /\ calls[i].pc = "post"
    /\ \E outcome \in {"200", "status", "raise"} :
         calls' = [calls EXCEPT ![i] =
                     [@ EXCEPT !.pc = "done", !.status = outcome,
                               !.ret = IF outcome = "200" THEN "True" ELSE "False"]]
    /\ last' = CallStep(i)
    /\ UNCHANGED <<devices, ws_tasks, ws_connections, ws_connected, device_state, pc, backoff, sock, tasks, stopPc, stopGen, gen, retired, fails, now, eventsLeft, callbacks, observed, crossed>>

\* The descriptors of the study: enabled with two days, enabled with an
\* empty days list, enabled without days, disabled with values and a day of
\* its own, enabled with one day.
BlockChoices ==
    {Descriptor("07:30", "21:30", 10, 300, TRUE, TRUE, {1, 2}),
     Descriptor("08:00", "09:00", 5, 60, TRUE, TRUE, {}),
     Descriptor("10:00", "11:00", 15, 90, TRUE, FALSE, {}),
     Descriptor("12:00", "13:00", 20, 30, FALSE, TRUE, {3}),
     Descriptor("14:00", "15:00", 7, 45, TRUE, TRUE, {5})}

\* Lists of 5 and of 6 descriptors: the sixth is beyond what is posted.
LongLists ==
    LET off == Descriptor("12:00", "13:00", 20, 30, FALSE, TRUE, {3})
        on1 == Descriptor("07:30", "21:30", 10, 300, TRUE, TRUE, {1, 2})
        on5 == Descriptor("14:00", "15:00", 7, 45, TRUE, TRUE, {5})
    IN  {<<off, on1, off, off, on5>>, <<on1, off, off, off, off, on5>>,
         <<off, off, off, off, off, on5>>}

\* The argument lists of the study: every list of one or two descriptors,
\* the long lists, the empty list, no argument at all, and legacy calls.
SetArgsChoices ==
    {SetArgs(TRUE, <<b>>, -1, -1) : b \in BlockChoices}
    \cup {SetArgs(TRUE, <<a, b>>, -1, -1) : a \in BlockChoices, b \in BlockChoices}
    \cup {SetArgs(TRUE, l, -1, -1) : l \in LongLists}
    \cup {SetArgs(TRUE, <<>>, -1, -1), SetArgs(FALSE, <<>>, -1, -1),
          SetArgs(FALSE, <<>>, 7, -1), SetArgs(FALSE, <<>>, 0, 45)}

SetInit == InitWith({"d1"}, MaxSetEvents, 0)

SetNext ==
    \/ Session(SessionFrames)
    \/ \E d \in Devices : \E a \in SetArgsChoices : SetScheduleCall(d, a)
    \/ \E i \in 1..Len(calls) : SetScheduleHttp(i)

SetSpec == SetInit /\ [][SetNext]_vars

(* ------------------------ clamp of the remaining times ----------------- *)
\* State confirmations for d1 whose raw remaining times may be negative or
\* smaller than the correction (up to 5500 ms with ReceiveTimes).
ClampReply(st, ut, wr, pr) ==
    Frame("ok", "SUPERCOMMAND", "d1", st, ut, wr, pr, 31, 121, 1, FALSE, <<>>)

ClampFrames ==
    {ClampReply(st, ut, wr, pr) :
        st \in {0, 1000}, ut \in {0, 500, 1500}, wr \in {-5, 1}, pr \in {-1, 3}}

ClampNext == Session(ClampFrames)

ClampSpec == MsgInit /\ [][ClampNext]_vars

\* C11: in every reachable state the authoritative work and pause remaining
\* times of every device are non-negative, whatever raw values and
\* timestamps the handled state confirmations carried.
RemainingTimesNonNegative ==
    \A d \in Devices :
        /\ device_state[d].work_remain_time >= 0
        /\ device_state[d].pause_remain_time >= 0

\* A reply handled at 6001 ms (no correction applies) stored 0 for its raw
\* work remaining time of -5 s beside the raw pause remaining time of 3 s.
NegativeRawClamped ==
    /\ device_state["d1"].present
    /\ device_state["d1"].work_time = 31
    /\ device_state["d1"].last_update_time = 6001
    /\ device_state["d1"].work_remain_time = 0
    /\ device_state["d1"].pause_remain_time = 3000

(* ------------------------ waiting_for_response ------------------------- *)
\* C12: while a device keeps its DutyCycleState, waiting_for_response goes
\* from false to true only in a step that sent a SUPERCOMMAND frame on the
\* device's connection, and from true to false only in a step that handles
\* a state confirmation whose deviceId is the session's device; every other
\* step (failed activation or send, other frames, monitor ticks, reconnects)
\* leaves it as it is.
WaitingFollowsRepoll ==
    [][\A d \in Devices :
         (device_state[d].present /\ device_state'[d].present) =>
            /\ (~device_state[d].waiting_for_response
                    /\ device_state'[d].waiting_for_response)
               => (last'.dev = d /\ last'.n = 1 /\ last'.op \in {"act", "step"})
            /\ (device_state[d].waiting_for_response
                    /\ ~device_state'[d].waiting_for_response)
               => \E m \in SessionFrames : Recv(d, m) /\ Matches(m, d)]_vars

\* A monitor's re-poll has just been sent and the flag is set, in a session
\* whose earlier re-poll a confirmation had answered.
RepollSentByMonitor ==
    /\ last.op = "act" /\ last.n = 1
    /\ device_state[last.dev].present
    /\ device_state[last.dev].waiting_for_response
    /\ device_state[last.dev].current_phase # "None"

(* --------------------------- schedule_blocks --------------------------- *)
\* C13: in every reachable state the schedule_blocks of every device that
\* has a DutyCycleState holds exactly 5 entries.
AlwaysFiveBlocks ==
    \A d \in Devices :
        device_state[d].present => Len(device_state[d].schedule_blocks) = NumBlocks

(* ---------------------- get_schedule: failure paths -------------------- *)
\* The phase and countdown fields of a DutyCycleState.
PhaseFields(st) ==
    <<st.present, st.current_phase, st.work_remain_time, st.pause_remain_time,
      st.work_time, st.pause_time, st.waiting_for_response, st.last_update_time>>

\* C14: every step of a get_schedule call leaves the connected flags, the
\* stored handles, the supervisors, the monitor tasks and the phase and
\* countdown fields of every DutyCycleState as they are; a trigger that
\* returns another status than 200 or raises makes the call return None; a
\* poll that does not find a processed reply keeps the call polling, and the
\* 50th such poll makes it return None.  The call has no other outcome than
\* None or a list of blocks.
GetScheduleFailsQuietly ==
    [][\A i \in 1..Len(calls') :
         (last'.op = "call" /\ last'.n = i /\ calls'[i].op = "get") =>
            /\ UNCHANGED <<ws_connected, ws_connections, ws_tasks, pc, sock, tasks>>
            /\ \A d \in Devices :
                   PhaseFields(device_state'[d]) = PhaseFields(device_state[d])
            /\ calls'[i].ret \in {"pending", "None", "blocks"}
            /\ (calls'[i].pc = "done") = (calls'[i].ret # "pending")
            /\ i <= Len(calls) =>
                  /\ (calls[i].pc = "http" /\ ~calls'[i].trig)
                        => calls'[i].ret = "None"
                  /\ (calls[i].pc = "http" /\ calls'[i].trig)
                        => calls'[i].pc = "poll"
                  /\ (calls[i].pc = "poll" /\ HeldFetched(calls[i]) # "true")
                        => IF calls[i].polls = PollLimit - 1
                           THEN calls'[i].ret = "None"
                           ELSE calls'[i].pc = "poll"]_vars

\* A call on a connected session whose state a confirmation had filled has
\* returned None after 50 polls.
TimedOutOnLiveSession ==
    /\ Len(calls) = 1
    /\ calls[1].op = "get" /\ calls[1].ret = "None" /\ calls[1].polls = PollLimit
    /\ last.op = "call"
    /\ ws_connected["d1"] /\ ws_connections["d1"] = "cur"
    /\ device_state["d1"].current_phase = "pause"

(* ---------------------- get_schedule: returned blocks ------------------ *)
\* The list a successful poll returns according to a tagging rule: the
\* first 5 of the cached blocks src in their order, padded with the filler;
\* a block without days gets tagged(b), a block with days keeps them.
Returned(src, tagged(_)) ==
    [k \in 1..NumBlocks |->
        IF k <= Len(src)
        THEN [src[k] EXCEPT !.has_days = TRUE,
                            !.days = IF src[k].has_days THEN @ ELSE tagged(src[k])]
        ELSE FillerBlock]

\* A step in which call i returns a list, and the blocks it found cached.
ReturnsBlocks(i) ==
    /\ last'.op = "call" /\ last'.n = i /\ i <= Len(calls)
    /\ calls[i].op = "get" /\ calls[i].pc = "poll" /\ calls'[i].ret = "blocks"

ReturnsReplyOfOwnTrigger ==
    \A i \in 1..Len(calls) :
        (calls[i].op = "get" /\ calls[i].ret = "blocks") =>
            \A k \in 1..Len(calls[i].blocks) :
                calls[i].blocks[k] # FillerBlock
                    => calls[i].blocks[k].week_day = calls[i].day

(* ----------------------- set_schedule: posted list --------------------- *)
\* The descriptors a posting call was given.
Provided(c) == c.args.blocks

\* C17: a call with a non-empty list of descriptors posts a workTimeList of
\* exactly 5 entries; entry i is enabled, with the i-th descriptor's start
\* and end and its work and pause values in decimal, iff the i-th descriptor
\* exists and is enabled; every other entry is the disabled filler
\* (00:00-00:00, "10", "120").
PostsFiveEntries ==
    \A n \in 1..Len(calls) :
        (calls[n].op = "set" /\ calls[n].args.has_blocks
             /\ Provided(calls[n]) # <<>>) =>
            LET c == calls[n]
                given == Provided(c)
                list == c.payload.workTimeList
            IN  /\ c.posts >= 1
                /\ Len(list) = NumBlocks
                /\ \A i \in 1..NumBlocks :
                      /\ (list[i].enabled = 1)
                            = (i <= Len(given) /\ given[i].enabled)
                      /\ list[i].enabled \in {0, 1}
                      /\ list[i].enabled = 1 =>
                            /\ list[i].startTime = given[i].start_time
                            /\ list[i].endTime = given[i].end_time
                            /\ list[i].workDuration = Str(given[i].work_duration)
                            /\ list[i].pauseDuration = Str(given[i].pause_duration)
                      /\ list[i].enabled = 0 =>
                            /\ list[i].startTime = "00:00"
                            /\ list[i].endTime = "00:00"
                            /\ list[i].workDuration = <<"1", "0">>
                            /\ list[i].pauseDuration = <<"1", "2", "0">>

\* One enabled descriptor (07:30-21:30, work 10, pause 300) was given alone
\* and the posted list has it first, followed by four fillers.
OneEnabledAmongFive ==
    /\ Len(calls) = 1 /\ calls[1].op = "set" /\ calls[1].posts = 1
    /\ Len(Provided(calls[1])) = 1
    /\ calls[1].payload.workTimeList[1].enabled = 1
    /\ calls[1].payload.workTimeList[1].startTime = "07:30"
    /\ calls[1].payload.workTimeList[1].pauseDuration = <<"3", "0", "0">>
    /\ Cardinality({i \in 1..NumBlocks :
                       calls[1].payload.workTimeList[i].enabled = 1}) = 1
    /\ \A i \in 2..NumBlocks : calls[1].payload.workTimeList[i] = FillerEntry

(* ----------------------- set_schedule: posted week --------------------- *)
\* The days of a descriptor: its days list, all 7 without the key.
DaysOf(b) == IF b.has_days THEN b.days ELSE AllDays

\* The enabled descriptors among the first 5 given, and the union of their
\* days.
EnabledSlots(given) == {i \in 1..Min(NumBlocks, Len(given)) : given[i].enabled}
EnabledDays(given) == UNION {DaysOf(given[i]) : i \in EnabledSlots(given)}

\* The days in a posted week.
Range(seq) == {seq[i] : i \in 1..Len(seq)}

\* C18 as stated: the posted week is the union of the days of the enabled
\* slots among the first 5 descriptors, all 7 days when no slot is enabled,
\* and never empty.
WeekIsUnionOfEnabledDays ==
    \A n \in 1..Len(calls) :
        (calls[n].op = "set" /\ calls[n].args.has_blocks /\ calls[n].posts >= 1) =>
            LET given == Provided(calls[n])
                week == calls[n].payload.week
            IN  /\ week # <<>>
                /\ EnabledSlots(given) = {} => Range(week) = AllDays
                /\ EnabledSlots(given) # {} => Range(week) = EnabledDays(given)

\* C18 amended: the posted week is the union of the days of the enabled
\* slots among the first 5 descriptors, in ascending order, when that union
\* is not empty, and all 7 days when it is empty (no slot enabled, or every
\* enabled slot has an empty days list); it is never empty.
WeekIsUnionOrAllDays ==
    \A n \in 1..Len(calls) :
        (calls[n].op = "set" /\ calls[n].args.has_blocks /\ calls[n].posts >= 1) =>
            LET given == Provided(calls[n])
                week == calls[n].payload.week
            IN  /\ week # <<>>
                /\ \A i \in 1..Len(week) : \A j \in 1..Len(week) :
                       i < j => week[i] < week[j]
                /\ Range(week) = IF EnabledDays(given) = {} THEN AllDays
                                 ELSE EnabledDays(given)

\* Five descriptors were given, the second enabled for days 1 and 2, the
\* fifth for day 5, the others disabled with day 3: the posted week is
\* 1, 2, 5.
DisabledDaysExcluded ==
    /\ Len(calls) = 1 /\ calls[1].op = "set" /\ calls[1].posts = 1
    /\ Len(Provided(calls[1])) = NumBlocks
    /\ ~Provided(calls[1])[1].enabled /\ Provided(calls[1])[1].days = {3}
    /\ calls[1].payload.week = <<1, 2, 5>>

(* ------------------------ set_schedule: outcome ------------------------ *)
\* C19: a step of a set_schedule call leaves every DutyCycleState as it is;
\* the call issues at most one POST; the response of the POST ends the call
\* whatever the session is doing, with True iff the status is 200 and False
\* on another status or an exception; a call that posts nothing returns
\* False.
SetScheduleOutcome ==
    [][\A n \in 1..Len(calls') :
         (last'.op = "call" /\ last'.n = n /\ calls'[n].op = "set") =>
            /\ device_state' = device_state
            /\ UNCHANGED <<ws_connected, ws_connections, ws_tasks, pc, sock, tasks>>
            /\ calls'[n].posts <= 1
            /\ calls'[n].ret \in {"pending", "True", "False"}
            /\ (calls'[n].ret = "True") = (calls'[n].status = "200")
            /\ calls'[n].posts = 0 => calls'[n].ret = "False"
            /\ (n <= Len(calls) /\ calls[n].pc = "post") =>
                  /\ calls'[n].pc = "done"
                  /\ calls'[n].status \in {"200", "status", "raise"}
                  /\ calls'[n].ret # "pending"]_vars

\* A call for a device with a started session has returned False after its
\* one POST failed.
FailedPostReturnedFalse ==
    /\ Len(calls) = 1 /\ calls[1].op = "set" /\ calls[1].posts = 1
    /\ calls[1].status \in {"status", "raise"} /\ calls[1].ret = "False"
    /\ last.op = "call"
    /\ device_state["d1"].present

(* --------------------------- re-poll monitor --------------------------- *)
\* Confirmations of a device configured 4 s work, 4 s pause: the pause at
\* 3 s (a second after it started), 2 s and 1 s, the work phase at 2 s, 1 s
\* and 0 s.
TickFrames ==
    {Confirm("d1", 0, pr, 4, 4, 0) : pr \in {3, 2, 1}}
    \cup {Confirm("d1", wr, 4, 4, 4, 1) : wr \in {2, 1, 0}}

TickInit == InitWith({"d1"}, MaxTickEvents, 0)

TickNext == Session(TickFrames)

TickSpec == TickInit /\ [][TickNext]_vars

\* The same re-poll monitor task after a step.
SameMonitor(t) ==
    {u \in tasks' : u.kind = "sc" /\ u.dev = t.dev /\ u.gen = t.gen}

\* The countdown the monitor reads is at the boundary, or strictly between
\* the boundaries of its phase.
AtPauseEnd(st) ==
    ~st.waiting_for_response /\ st.current_phase = "pause"
        /\ st.pause_remain_time = 1000
AtPauseStart(st) ==
    ~st.waiting_for_response /\ st.current_phase = "pause"
        /\ st.pause_remain_time = (st.pause_time - 1) * 1000
AtWorkEnd(st) ==
    ~st.waiting_for_response /\ st.current_phase = "work"
        /\ st.work_remain_time = 1000
InsidePause(st) ==
    ~st.waiting_for_response /\ st.current_phase = "pause"
        /\ st.pause_remain_time > 1000
        /\ st.pause_remain_time < (st.pause_time - 1) * 1000
InsideWork(st) ==
    ~st.waiting_for_response /\ st.current_phase = "work"
        /\ st.work_remain_time > 1000
        /\ st.work_remain_time < (st.work_time - 1) * 1000

\* C20: a re-poll monitor calls _send_supercommand for a boundary (pause
\* remaining 1, pause remaining pause_time - 1, work remaining 1) only in an
\* iteration that reads the countdown at that boundary, without an
\* outstanding re-poll, and with the boundary's flag clear; the flag is set
\* when the call returns and is cleared only by an iteration that reads the
\* countdown strictly between the boundaries of the phase: so no boundary
\* gets a second call while the countdown stays at it, over consecutive
\* ticks or across the confirmation that answers the re-poll.  An iteration
\* that reads a boundary with the flag clear does make the call.
OneRepollPerBoundary ==
    [][\A t \in tasks : t.kind = "sc" =>
         \A u \in SameMonitor(t) :
            LET st == device_state[t.dev] IN
            /\ (t.pc = "run" /\ u.pc \in {"send_bpe", "send_bpe_aps"})
                  => ~t.bpe /\ AtPauseEnd(st)
            /\ (t.pc = "run" /\ u.pc \in {"send_aps", "send_bpe_aps"})
                  => ~t.aps /\ AtPauseStart(st)
            /\ (t.pc = "run" /\ u.pc = "send_bwe")
                  => ~t.bwe /\ AtWorkEnd(st)
            /\ (t.pc # "run" /\ u.pc # t.pc)
                  => /\ t.pc \in {"send_bpe", "send_bpe_aps"} => u.bpe
                     /\ t.pc = "send_aps" => u.aps
                     /\ t.pc = "send_bwe" => u.bwe
                     /\ u.pc = "send_aps" => (t.pc = "send_bpe_aps" /\ ~t.aps)
            /\ (t.bpe /\ ~u.bpe) => (t.pc = "run" /\ InsidePause(st))
            /\ (t.aps /\ ~u.aps) => (t.pc = "run" /\ InsidePause(st))
            /\ (t.bwe /\ ~u.bwe) => (t.pc = "run" /\ InsideWork(st))
            /\ (SupercommandMonitorTick(t) /\ ws_connected[t.dev]) =>
                  /\ (AtPauseEnd(st) /\ ~t.bpe)
                        => (u.bpe \/ u.pc \in {"send_bpe", "send_bpe_aps"})
                  /\ (AtPauseStart(st) /\ ~t.aps)
                        => (u.aps \/ u.pc \in {"send_aps", "send_bpe_aps"})
                  /\ (AtWorkEnd(st) /\ ~t.bwe)
                        => (u.bwe \/ u.pc = "send_bwe")]_vars

\* The monitor re-polled a second before the end of a pause, the
\* confirmation that answered it showed the pause at pause_time - 1, and the
\* monitor has just sent its re-poll for that boundary: both flags are set,
\* both confirmations of the behaviour are spent, each boundary got one
\* re-poll.
EachBoundaryRepolledOnce ==
    /\ eventsLeft = 0
    /\ last.op = "act" /\ last.n = 1 /\ last.gen = gen["d1"]
    /\ ws_connected["d1"] /\ ws_connections["d1"] = "cur" /\ sock["d1"] = "open"
    /\ device_state["d1"].present
    /\ device_state["d1"].current_phase = "pause"
    /\ device_state["d1"].pause_remain_time = 3000
    /\ device_state["d1"].waiting_for_response
    /\ \E t \in tasks : t.kind = "sc" /\ t.pc = "run" /\ t.bpe /\ t.aps
                          /\ t.gen = gen["d1"]

(* ------------------------------ observers ------------------------------ *)
Registered(o) == \E i \in 1..Len(callbacks) : callbacks[i] = o

\* add_callback(o), by an observer that is not registered (an entity
\* registers its handler once, in its constructor).
AddCallback(o) ==
    /\ ~Registered(o)
    /\ eventsLeft > 0
    /\ eventsLeft' = eventsLeft - 1
    /\ callbacks' = Append(callbacks, o)
    /\ last' = Step("callback", "", 0, 0)
    /\ UNCHANGED <<devices, ws_tasks, ws_connections, ws_connected, device_state, pc, backoff, sock, tasks, stopPc, stopGen, gen, retired, fails, now, calls, observed, crossed>>

\* remove_callback(o): a registered observer is removed, else nothing.
RemoveCallback(o) ==
    /\ eventsLeft > 0
    /\ eventsLeft' = eventsLeft - 1
    /\ callbacks' = SelectSeq(callbacks, LAMBDA x : x # o)
    /\ last' = Step("callback", "", 0, 1)
    /\ UNCHANGED <<devices, ws_tasks, ws_connections, ws_connected, device_state, pc, backoff, sock, tasks, stopPc, stopGen, gen, retired, fails, now, calls, observed, crossed>>

\* Frames that _handle_message drops while decoding.
BadJson == Frame("badjson", "", "", 0, 0, 0, 0, 0, 0, 0, FALSE, <<>>)
NotDict == Frame("notdict", "", "", 0, 0, 0, 0, 0, 0, 0, FALSE, <<>>)
BadData == Frame("baddata", "SUPERCOMMAND", "d1", 0, 0, 2, 1, 2, 3, 0, FALSE, <<>>)
MalformedFrames == {Banner, BadJson, NotDict, BadData}

\* A message of a type the handler has no branch for.
Pong == Frame("ok", "HEARTBEAT", "d1", 0, 0, 0, 0, 0, 0, 0, FALSE, <<>>)

\* The frames of the observer study: those of the session study (with
\* confirmations that name d2 on d1's connection), the dropped ones and a
\* message of another type.
ObserverFrames == SessionFrames \cup MalformedFrames \cup {Pong}

\* Two observers registered before the session starts.
ObserverInit == InitClient({"d1"}, MaxObserverEvents, 0, <<"o1", "o2">>)

ObserverNext ==
    \/ Session(ObserverFrames)
    \/ \E o \in Observers : AddCallback(o)
    \/ \E o \in Observers : RemoveCallback(o)

ObserverSpec == ObserverInit /\ [][ObserverNext]_vars

\* How often the last broadcast called observer o.
Deliveries(o) == Cardinality({i \in 1..Len(observed.to) : observed.to[i] = o})

\* C21: every inbound frame that decodes to a message object, whatever its
\* type and also when a state confirmation names another device, is
\* delivered exactly once to every registered observer, after the handler
\* applied the message's state changes.
EveryMessageBroadcast ==
    [][\A d \in Devices : \A m \in ObserverFrames :
         (Recv(d, m) /\ m.frame = "ok" /\ callbacks # <<>>) =>
             /\ observed'.flip # observed.flip
             /\ observed'.msg = m
             /\ \A o \in Observers : Registered(o) => Deliveries(o)' = 1
             /\ observed'.seen = device_state'[d]]_vars

\* C22: a frame that is the connect banner, is not valid JSON, is not a JSON
\* object, or whose string data field fails the second decode is dropped:
\* every DutyCycleState is unchanged, no observer is called, and the
\* supervisor stays in its receive loop on the open connection with the
\* device connected, its handle and its tasks as they were.
MalformedFrameDropped ==
    [][\A d \in Devices : \A m \in MalformedFrames :
         Recv(d, m) =>
             /\ device_state' = device_state
             /\ observed' = observed
             /\ pc'[d] = "recv" /\ sock'[d] = "open"
             /\ ws_connected[d] /\ ws_connected'[d]
             /\ ws_connections'[d] = ws_connections[d]
             /\ tasks' = tasks]_vars

\* A frame was dropped on a session whose observers had been called with an
\* earlier state confirmation, which is still the last broadcast.
DroppedAfterDelivery ==
    /\ last.op = "recv" /\ last.n = 1 /\ last.dev = "d1"
    /\ pc["d1"] = "recv" /\ ws_connected["d1"]
    /\ device_state["d1"].current_phase = "pause"
    /\ observed.msg.type = "SUPERCOMMAND" /\ observed.to = <<"o1", "o2">>

(* --------------------------- async_setup_entry -------------------------- *)
\* The lists of devices get_devices may return, in the server's order.
DeviceLists == {<<>>, <<"d1">>, <<"d2">>, <<"d1", "d2">>}

\* One discovery attempt: whether get_devices was awaited and what it
\* returned.
Try(tried, found) == [tried |-> tried, found |-> found]
NotTried == Try(FALSE, <<>>)

\* An async_setup_entry call.  pc is the await it is suspended in: "token"
\* get_devices with the stored token (line 39), "refresh"
\* refresh_access_token (44), "refreshed" get_devices after it (45), "login"
\* login (49), "relogged" get_devices after it (50), "forward" the platform
\* setups (71); "done" returned or raised.  found is the local variable
\* devices, password "client.password is truthy", started the
\* start_websocket calls made, ret "pending", "True" or "NotReady".
SetupCall(pw) ==
    [op |-> "setup", pc |-> "token", password |-> pw, found |-> <<>>,
     by_token |-> NotTried, by_refresh |-> NotTried, by_login |-> NotTried,
     refresh_ok |-> FALSE, login_ok |-> FALSE, started |-> <<>>,
     ret |-> "pending"]

\* raise ConfigEntryNotReady (line 63; the except of 150-152 re-raises it).
NotReady(c) == [c EXCEPT !.pc = "done", !.ret = "NotReady"]

\* Where the call goes with the local list found: after the first
\* discovery (line 42), after the refresh branch (line 47) and after the
\* login branch (line 62).
AfterToken(c) ==
    IF c.found # <<>> THEN [c EXCEPT !.pc = "forward"]
    ELSE [c EXCEPT !.pc = "refresh"]

\* A setup that attempts the re-login whether or not a password is stored.
AfterRefreshAlwaysLogin(c) ==
    IF c.found # <<>> THEN [c EXCEPT !.pc = "forward"]
    ELSE [c EXCEPT !.pc = "login"]

AfterRefresh(c) ==
    IF c.found # <<>> THEN [c EXCEPT !.pc = "forward"]
    ELSE IF c.password THEN [c EXCEPT !.pc = "login"]
    ELSE NotReady(c)

AfterLogin(c) ==
    IF c.found # <<>> THEN [c EXCEPT !.pc = "forward"] ELSE NotReady(c)

\* async_setup_entry up to its first await: the client is constructed and
\* get_devices is called with the stored token.
AsyncSetupEntry(pw) ==
    /\ calls = <<>>
    /\ calls' = <<SetupCall(pw)>>
    /\ last' = Step("call", "", 0, 1)
    /\ UNCHANGED <<devices, ws_tasks, ws_connections, ws_connected, device_state, pc, backoff, sock, tasks, stopPc, stopGen, gen, retired, fails, now, eventsLeft, callbacks, observed, crossed>>

\* get_devices returns: list on status 200 (self.devices is replaced by
\* it), [] on another status or an exception (self.devices is kept).
SetupGetDevices(i) ==
    /\ i \in 1..Len(calls)
    /\ calls[i].op = "setup" /\ calls[i].pc \in {"token", "refreshed", "relogged"}
    /\ \E list \in DeviceLists : \E ok \in BOOLEAN :
         LET c == calls[i]
             got == IF ok THEN list ELSE <<>>
             c2 == [c EXCEPT !.found = got]
         IN  /\ devices' = IF ok THEN {list[k] : k \in 1..Len(list)} ELSE devices
             /\ calls' = [calls EXCEPT ![i] =
                    IF c.pc = "token"
                    THEN AfterToken([c2 EXCEPT !.by_token = Try(TRUE, got)])
                    ELSE IF c.pc = "refreshed"
                    THEN AfterRefresh([c2 EXCEPT !.by_refresh = Try(TRUE, got)])
                    ELSE AfterLogin([c2 EXCEPT !.by_login = Try(TRUE, got)])]
    /\ last' = Step("call", "", 0, i)
    /\ UNCHANGED <<ws_tasks, ws_connections, ws_connected, device_state, pc, backoff, sock, tasks, stopPc, stopGen, gen, retired, fails, now, eventsLeft, callbacks, observed, crossed>>

\* refresh_access_token returns True or False (no refresh token, another
\* status, an invalid body or an exception).
SetupRefresh(i) ==
    /\ i \in 1..Len(calls)
    /\ calls[i].op = "setup" /\ calls[i].pc = "refresh"
    /\ \E ok \in BOOLEAN :
         calls' = [calls EXCEPT ![i] =
                     IF ok THEN [@ EXCEPT !.pc = "refreshed", !.refresh_ok = TRUE]
                     ELSE AfterRefresh(@)]
    /\ last' = Step("call", "", 0, i)
    /\ UNCHANGED <<devices, ws_tasks, ws_connections, ws_connected, device_state, pc, backoff, sock, tasks, stopPc, stopGen, gen, retired, fails, now, eventsLeft, callbacks, observed, crossed>>

\* login returns True or False.
SetupLogin(i) ==
    /\ i \in 1..Len(calls)
    /\ calls[i].op = "setup" /\ calls[i].pc = "login"
    /\ \E ok \in BOOLEAN :
         calls' = [calls EXCEPT ![i] =
                     IF ok THEN [@ EXCEPT !.pc = "relogged", !.login_ok = TRUE]
                     ELSE AfterLogin(@)]
    /\ last' = Step("call", "", 0, i)
    /\ UNCHANGED <<devices, ws_tasks, ws_connections, ws_connected, device_state, pc, backoff, sock, tasks, stopPc, stopGen, gen, retired, fails, now, eventsLeft, callbacks, observed, crossed>>

\* The platform setups return (the entities registered their handlers), then
\* the loop of lines 74-75 calls start_websocket for every device of the
\* list (start_websocket has no await, so the loop runs in one piece) and
\* the call returns True.
SetupForward(i) ==
    /\ i \in 1..Len(calls)
    /\ calls[i].op = "setup" /\ calls[i].pc = "forward"
    /\ LET c == calls[i]
           fresh == SelectSeq(c.found, LAMBDA d : ~InTasks(d))
           new == {fresh[k] : k \in 1..Len(fresh)}
       IN  /\ eventsLeft >= Len(fresh)
           /\ eventsLeft' = eventsLeft - Len(fresh)
           /\ device_state' = [d \in Devices |->
                  IF d \in new /\ ~device_state[d].present
                  THEN InitState(now) ELSE device_state[d]]
           /\ ws_connected' = [d \in Devices |->
                  IF d \in new THEN FALSE ELSE ws_connected[d]]
           /\ ws_tasks' = ws_tasks \o fresh
           /\ gen' = [d \in Devices |-> IF d \in new THEN gen[d] + 1 ELSE gen[d]]
           /\ pc' = [d \in Devices |-> IF d \in new THEN "activate" ELSE pc[d]]
           /\ backoff' = [d \in Devices |->
                  IF d \in new THEN BackoffFloor ELSE backoff[d]]
           /\ fails' = [d \in Devices |-> IF d \in new THEN 0 ELSE fails[d]]
           /\ callbacks' = callbacks \o <<"o1", "o2">>
           /\ calls' = [calls EXCEPT ![i] =
                  [c EXCEPT !.pc = "done", !.ret = "True", !.started = c.found]]
    /\ last' = Step("call", "", 0, i)
    /\ UNCHANGED <<devices, ws_connections, sock, tasks, stopPc, stopGen, retired, now, observed, crossed>>

\* The setup call of the behaviour returned True: the client is in use.
SetupReturned ==
    \E i \in 1..Len(calls) : calls[i].op = "setup" /\ calls[i].ret = "True"

\* Before the setup nothing is discovered and nobody holds the client.
SetupInit == InitWith({}, MaxSetupEvents, 0)

SetupNext ==
    \/ \E pw \in BOOLEAN : AsyncSetupEntry(pw)
    \/ \E i \in 1..Len(calls) : SetupGetDevices(i)
    \/ \E i \in 1..Len(calls) : SetupRefresh(i)
    \/ \E i \in 1..Len(calls) : SetupLogin(i)
    \/ \E i \in 1..Len(calls) : SetupForward(i)
    \/ SetupReturned /\ Session(SessionFrames)

SetupSpec == SetupInit /\ [][SetupNext]_vars

\* How often start_websocket(d) was called by setup call c.
StartCalls(c, d) == Cardinality({k \in 1..Len(c.started) : c.started[k] = d})

\* No discovery attempt of setup call c found a device.
NoneFound(c) ==
    c.by_token.found = <<>> /\ c.by_refresh.found = <<>> /\ c.by_login.found = <<>>

SendDue(st, t) ==
    BeforePauseEnds(st, t) \/ AfterPauseStarts(st, t) \/ BeforeWorkEnds(st, t)

\* C24: an iteration of the re-poll monitor that finds waiting_for_response
\* set sends no re-poll, whatever the phase and the remaining times: it does
\* not enter _send_supercommand, leaves its three one-shot flags as they
\* were and writes no state.
NoRepollWhileWaiting ==
    [][\A t \in tasks :
         (/\ SupercommandMonitorTick(t)
          /\ ws_connected[t.dev]
          /\ device_state[t.dev].waiting_for_response)
         => /\ tasks' = tasks
            /\ device_state' = device_state
            /\ last' = Skipped(t)]_vars

\* The re-poll monitor of the live connection skipped an iteration although
\* the pause was a second from its end and the send for it not yet made.
SkippedAtBoundary ==
    \E t \in tasks :
        /\ t.kind = "sc" /\ t.pc = "run" /\ t.gen = gen[t.dev]
        /\ last = Skipped(t)
        /\ ws_connected[t.dev] /\ ws_connections[t.dev] = "cur"
        /\ device_state[t.dev].waiting_for_response
        /\ BeforePauseEnds(device_state[t.dev], t)

(* ------------------------- replies of other devices --------------------- *)
\* C25: a state confirmation whose device id is not the session's device is
\* not processed: the session's whole DutyCycleState (phase, remaining
\* times, configured durations, last_update_time, waiting_for_response,
\* schedule_blocks), and that of every other device, is the same after the
\* handler as before.
MismatchedReplyIgnored ==
    [][\A d \in Devices : \A m \in ObserverFrames :
         (Recv(d, m) /\ m.frame = "ok" /\ m.type = "SUPERCOMMAND"
                     /\ m.deviceId # d)
         => device_state' = device_state]_vars

\* The session of d1, in a pause and waiting for the reply to a re-poll,
\* handled a confirmation that names d2 and is still waiting.
OtherDevicesReplyHandled ==
    /\ last.op = "recv" /\ last.n = 0 /\ last.dev = "d1"
    /\ callbacks # <<>>
    /\ observed.msg.type = "SUPERCOMMAND" /\ observed.msg.deviceId = "d2"
    /\ device_state["d1"].current_phase = "pause"
    /\ device_state["d1"].waiting_for_response

(* --------------------------- countdown monitor -------------------------- *)
\* time.time() moves on by half a second.
Advance ==
    /\ now + ClockStepMs <= MaxClockMs
    /\ now' = now + ClockStepMs
    /\ last' = Step("clock", "", 0, 0)
    /\ UNCHANGED <<devices, ws_tasks, ws_connections, ws_connected, device_state, pc, backoff, sock, tasks, stopPc, stopGen, gen, retired, fails, eventsLeft, calls, callbacks, observed, crossed>>

\* Confirmations for d1 (2 s work, 3 s pause): a second before the end of
\* the pause, 2 s of work left, and work at its end.
CountdownFrames ==
    {Confirm("d1", 2, 1, 2, 3, 0), Confirm("d1", 2, 3, 2, 3, 1),
     Confirm("d1", 0, 3, 2, 3, 1)}

CountdownInit == InitClient({"d1"}, MaxCountdownEvents, 0, <<"o1", "o2">>)

CountdownNext ==
    \/ Session(CountdownFrames)
    \/ Advance

CountdownSpec == CountdownInit /\ [][CountdownNext]_vars

\* The phase and countdown fields that a state confirmation sets.
CountdownFields(st) ==
    <<st.current_phase, st.work_remain_time, st.pause_remain_time,
      st.work_time, st.pause_time, st.last_update_time>>

\* C26: an iteration of the countdown monitor, whether it leaves, idles,
\* broadcasts COUNTDOWN or also schedules the delayed re-poll, leaves every
\* DutyCycleState (phase, remaining times, configured durations, last update
\* time, waiting_for_response, schedule_blocks) as it is; and a step that
\* changes the phase, a remaining time, a configured duration or the last
\* update time of an existing DutyCycleState is the message handler
\* processing a state confirmation that names the session's own device.
CountdownMonitorWritesNothing ==
    [][/\ \A t \in tasks : CountdownMonitorTick(t) => device_state' = device_state
       /\ \A d \in Devices :
            (/\ device_state[d].present /\ device_state'[d].present
             /\ CountdownFields(device_state'[d]) # CountdownFields(device_state[d]))
            => \E m \in CountdownFrames : Recv(d, m) /\ Matches(m, d)]_vars

\* Observers were shown a work countdown below the stored remaining time,
\* one and a half seconds or more after the confirmation that is still the
\* stored state.
DisplayedBelowStored ==
    /\ last.op = "act" /\ last.n = 3 /\ last.dev = "d1"
    /\ observed.msg.type = "COUNTDOWN"
    /\ observed.seen = device_state["d1"]
    /\ device_state["d1"].current_phase = "work"
    /\ now >= device_state["d1"].last_update_time + 1500
    /\ observed.msg.workRemainTime * MsPerSec < device_state["d1"].work_remain_time

\* floor(remaining - elapsed) in whole seconds, at least 0, for a remaining
\* time and an elapsed time in milliseconds.
FloorLeft(remain, elapsed) == Max(0, (remain - elapsed) \div MsPerSec)

\* C27: every COUNTDOWN message handed to the observers carries, for the
\* phase the device is in, max(0, floor(stored remaining time - time elapsed
\* since last_update_time)) and, for the other phase, its full configured
\* duration; neither value is negative, and workStatus is 1 exactly when
\* current_phase is work.
CountdownReportsActivePhase ==
    [][(observed'.flip # observed.flip /\ observed'.msg.type = "COUNTDOWN") =>
        LET m == observed'.msg
            st == device_state[m.deviceId]
            elapsed == now - st.last_update_time
        IN  /\ st.current_phase \in {"work", "pause"}
            /\ m.workStatus = (IF st.current_phase = "work" THEN 1 ELSE 0)
            /\ m.workRemainTime >= 0 /\ m.pauseRemainTime >= 0
            /\ st.current_phase = "work" =>
                 /\ m.workRemainTime = FloorLeft(st.work_remain_time, elapsed)
                 /\ m.pauseRemainTime = st.pause_time
            /\ st.current_phase = "pause" =>
                 /\ m.pauseRemainTime = FloorLeft(st.pause_remain_time, elapsed)
                 /\ m.workRemainTime = st.work_time]_vars

\* A tick in a pause whose stored second ran out half a second ago showed
\* pause 0 and the full configured work duration.
PauseRanOutShowsZero ==
    /\ last.op = "act" /\ last.n \in {2, 3} /\ last.dev = "d1"
    /\ observed.msg.type = "COUNTDOWN" /\ observed.seen = device_state["d1"]
    /\ observed.to = <<"o1", "o2">>
    /\ device_state["d1"].current_phase = "pause"
    /\ device_state["d1"].pause_remain_time = 1000
    /\ now = device_state["d1"].last_update_time + 1500
    /\ observed.msg.workStatus = 0
    /\ observed.msg.pauseRemainTime = 0
    /\ observed.msg.workRemainTime = device_state["d1"].work_time
    /\ device_state["d1"].work_time > 0

\* C28: an iteration of the countdown monitor creates the delayed re-poll
\* task exactly when it computed a display value (connected, state and phase
\* present), the value of the active phase is 0 and last_countdown_value,
\* the value of the previous computing iteration (None before the first),
\* is not 0; every computing iteration stores its value as
\* last_countdown_value, so an iteration that follows one with value 0
\* creates no task, and an iteration without the edge adds no task at all.
ZeroTriggerIsOneShot ==
    [][\A t \in tasks : CountdownMonitorTick(t) =>
        LET d == t.dev
            st == device_state[d]
            computes == ws_connected[d] /\ st.present /\ st.current_phase # "None"
            value == IF st.current_phase = "work"
                     THEN FloorLeft(st.work_remain_time, now - st.last_update_time)
                     ELSE FloorLeft(st.pause_remain_time, now - st.last_update_time)
            hit == computes /\ value = 0 /\ t.lastcd # 0
        IN  /\ (last' = Scheduled(t)) <=> hit
            /\ hit => Task("dl", d, t.gen, "sleep", "none") \in tasks'
            /\ ~hit => {u \in tasks' : u.kind = "dl"} \subseteq tasks
            /\ computes => [t EXCEPT !.lastcd = value] \in tasks'
            /\ (computes /\ t.lastcd = 0) => last' = Shown(t)]_vars

\* The monitor showed 0 again in the iteration after the one that hit 0 and
\* created no second task.
StaysZeroWithoutRepoll ==
    \E t \in tasks :
        /\ t.kind = "cd" /\ t.lastcd = 0
        /\ last = Shown(t)
        /\ observed.msg.type = "COUNTDOWN" /\ observed.seen = device_state[t.dev]
        /\ device_state[t.dev].current_phase = "work"
        /\ observed.msg.workRemainTime = 0

\* The COUNTDOWN message of a tick, computed from the stored state and the
\* clock.
Display(d, st, tm) ==
    Countdown(d, IF st.current_phase = "work" THEN 1 ELSE 0,
              IF st.current_phase = "work"
              THEN FloorLeft(st.work_remain_time, tm - st.last_update_time)
              ELSE st.work_time,
              IF st.current_phase = "work"
              THEN st.pause_time
              ELSE FloorLeft(st.pause_remain_time, tm - st.last_update_time))

\* An iteration of the countdown monitor hands one COUNTDOWN message to all
\* registered observers.
Broadcasts(d) ==
    /\ observed'.flip # observed.flip
    /\ observed'.msg = Display(d, device_state[d], now)
    /\ observed'.to = callbacks

ConnectionStepsInOrder ==
    [][\A d \in Devices :
         /\ (pc'[d] = "connect" /\ pc[d] # "connect") => pc[d] = "activate"
         /\ (ws_connected'[d] /\ ~ws_connected[d]) => pc[d] = "connect"
         /\ (pc'[d] = "init_sc" /\ pc[d] # "init_sc") =>
               /\ pc[d] = "connect"
               /\ ws_connected'[d] /\ ws_connections'[d] = "cur"
               /\ Monitors(d, gen[d]) \subseteq tasks'
         /\ last' = SentInit(d) => (pc[d] = "init_sc" /\ ws_connected[d])
         /\ (pc'[d] = "init_wtf" /\ pc[d] # "init_wtf") => pc[d] = "init_sc"
         /\ (pc'[d] = "recv" /\ pc[d] # "recv") => pc[d] = "init_wtf"
         /\ (last'.op = "recv" /\ last'.dev = d /\ eventsLeft' # eventsLeft) =>
               pc[d] = "recv"]_vars

\* The supervisor of d1, after both initial requests, handled the
\* confirmation that answers its initial re-poll.
FirstFrameAfterBothRequests ==
    /\ last.op = "recv" /\ last.dev = "d1" /\ last.n = 0
    /\ pc["d1"] = "recv" /\ ws_connected["d1"]
    /\ device_state["d1"].current_phase # "None"
    /\ ~device_state["d1"].waiting_for_response

(* ------------------ re-poll monitor: later duty cycles ------------------ *)
\* Confirmations of a device configured 2 s work, 2 s pause: work with 1 s
\* left, work at its end, the pause just started, and the pause with 1 s
\* left.
RearmFrames ==
    {Confirm("d1", 1, 2, 2, 2, 1), Confirm("d1", 0, 2, 2, 2, 1),
     Confirm("d1", 0, 2, 2, 2, 0), Confirm("d1", 0, 1, 2, 2, 0)}

RearmInit == InitWith({"d1"}, MaxRearmEvents, 0)

\* The steps of sessions whose connection stays up: no failed attempt, no
\* transport failure and no stop_websocket.
Steady(frames) ==
    \/ \E d \in Devices : StartWebsocket(d)
    \/ \E d \in Devices : ActivateOk(d)
    \/ \E d \in Devices : Open(d)
    \/ \E d \in Devices : InitSupercommand(d)
    \/ \E d \in Devices : InitWorkTimeFrequency(d)
    \/ \E d \in Devices : \E m \in frames : Recv(d, m)
    \/ \E t \in tasks : HeartbeatTick(t)
    \/ \E t \in tasks : SupercommandMonitorTick(t)
    \/ \E t \in tasks : SupercommandMonitorSend(t)
    \/ \E t \in tasks : CountdownMonitorTick(t)
    \/ \E t \in tasks : DelayedSupercommandWake(t)
    \/ \E t \in tasks : DelayedSupercommandSend(t)

RearmNext == Steady(RearmFrames)

RearmSpec == RearmInit /\ [][RearmNext]_vars

\* C31: an iteration of the re-poll monitor that finds the stored countdown
\* at one of its three boundaries (not waiting, connected, handle stored),
\* the phase having flipped since a re-poll monitor last set a one-shot
\* flag, enters a re-poll: the flags of an earlier duty cycle do not hold it
\* back, whatever the configured durations.
RearmedEveryCycle ==
    [][\A t \in tasks :
         LET st == device_state[t.dev] IN
         (/\ SupercommandMonitorTick(t)
          /\ ws_connected[t.dev] /\ ws_connections[t.dev] # "none"
          /\ crossed[t.dev]
          /\ AtPauseEnd(st) \/ AtPauseStart(st) \/ AtWorkEnd(st))
         => \E u \in SameMonitor(t) : u.pc # "run"]_vars

(* ------------------- lifetime of the DutyCycleState --------------------- *)
\* C32: a failed attempt or a transport failure (the except branch), the end
\* of the backoff sleep, the activate call and the opening of the transport
\* of the next attempt leave self._device_state as it is, schedule_blocks
\* and waiting_for_response included; an entry comes into being only in a
\* start_websocket step and goes only in the step in which a stop_websocket
\* returns.
StateOutlivesReconnect ==
    [][\A d \in Devices :
         /\ (\/ ActivateOk(d) \/ ActivateFail(d) \/ ConnectFail(d) \/ Open(d)
             \/ RecvFail(d) \/ BackoffDone(d))
            => device_state' = device_state
         /\ (~device_state[d].present /\ device_state'[d].present)
            => (last'.op = "start" /\ last'.dev = d)
         /\ (device_state[d].present /\ ~device_state'[d].present)
            => (last'.op = "stop" /\ last'.dev = d)]_vars

\* The first supervisor of d1 opened its transport again after a failure
\* and a backoff sleep, before any frame of the new connection; the state
\* still shows the pause confirmed on the earlier connection.
ReconnectedWithOldState ==
    /\ pc["d1"] = "init_sc" /\ gen["d1"] = 1 /\ backoff["d1"] > BackoffFloor
    /\ ws_connected["d1"]
    /\ device_state["d1"].current_phase = "pause"

(* ------------------------ outstanding re-polls -------------------------- *)
\* The step sent a re-poll command for d: the frame went out on the
\* websocket at the end of a _send_supercommand of the supervisor, of a
\* re-poll monitor or of a delayed re-poll task.
SendsRepoll(d) ==
    /\ last'.n = 1 /\ last'.dev = d
    /\ \/ InitSupercommand(d)
       \/ \E t \in tasks : t.dev = d /\ SupercommandMonitorSend(t)
       \/ \E t \in tasks : t.dev = d /\ DelayedSupercommandSend(t)

\* C33: no re-poll command is sent for a device while its
\* waiting_for_response is set, whichever of the three senders sends it.
OneOutstandingRepoll ==
    [][\A d \in Devices :
         SendsRepoll(d) => ~device_state[d].waiting_for_response]_vars

(* --------------------- one monitor of each kind ------------------------- *)
\* C34: at any time a device has at most one live heartbeat task, one live
\* re-poll monitor and one live countdown monitor.
OneMonitorOfEachKind ==
    \A d \in Devices : \A k \in MonitorKinds :
        Cardinality({t \in tasks : t.dev = d /\ t.kind = k}) <= 1

(* ------------------ the state of a registered session ------------------- *)
\* C35: whenever a supervisor is registered for a device in self.ws_tasks,
\* the device has a DutyCycleState.
SupervisorHasState ==
    \A d \in Devices : InTasks(d) => device_state[d].present

(* ----------------------------- availability ----------------------------- *)
\* C36: in every state, a device reported available has a stored connection
\* handle and a registered supervisor; and the connected flag becomes true
\* only in the step that opens the transport and is true only while that
\* supervisor is inside its connection (from the open to its next failure
\* or the stop that cancels it).
AvailableMeansConnected ==
    /\ [](\A d \in Devices :
            is_device_available(d) => (ws_connections[d] # "none" /\ InTasks(d)))
    /\ [][\A d \in Devices :
            /\ (ws_connected'[d] /\ ~ws_connected[d]) => Open(d)
            /\ ws_connected'[d] => pc'[d] \in {"init_sc", "init_wtf", "recv"}]_vars

(* ------------------ clock-skew correction: direction -------------------- *)
\* The time by which the updateTime of a corrected reply lies after the
\* moment it is received (0 for a reply that gets zero correction).
Ahead(m, rt) ==
    IF m.sendTime # 0 /\ m.updateTime # 0
       /\ rt - m.sendTime >= 0 /\ rt - m.sendTime <= MaxNetworkDelayMs
    THEN Max(0, m.updateTime - rt)
    ELSE 0

\* Every processed state confirmation stores remaining times r with
\* 0 <= r <= max(0, raw), whatever its timestamps.
CorrectionNeverIncreases ==
    [][\A d \in Devices : \A m \in SkewFrames :
         (Recv(d, m) /\ Matches(m, d) /\ device_state[d].present) =>
            /\ device_state'[d].work_remain_time >= 0
            /\ device_state'[d].work_remain_time <= Max(0, m.workRemainTime * MsPerSec)
            /\ device_state'[d].pause_remain_time >= 0
            /\ device_state'[d].pause_remain_time <= Max(0, m.pauseRemainTime * MsPerSec)]_vars

\* C37: every processed state confirmation stores remaining times r with
\* 0 <= r <= max(0, raw) + a, where a is the time by which the reply's
\* update_time lies after the local receive time when the correction is
\* applied (both timestamps present, network delay within [0, 5000] ms) and
\* 0 otherwise: the correction never increases a countdown unless the
\* device's update_time is in the receiver's future, and then by no more
\* than that lead.
CorrectionIncreasesOnlyByLead ==
    [][\A d \in Devices : \A m \in SkewFrames :
         (Recv(d, m) /\ Matches(m, d) /\ device_state[d].present) =>
            LET a == Ahead(m, now) IN
            /\ device_state'[d].work_remain_time >= 0
            /\ device_state'[d].work_remain_time
                   <= Max(0, m.workRemainTime * MsPerSec) + a
            /\ device_state'[d].pause_remain_time >= 0
            /\ device_state'[d].pause_remain_time
                   <= Max(0, m.pauseRemainTime * MsPerSec) + a]_vars

\* A reply sent at 1000 ms whose state was updated at 1500 ms, received at
\* 1200 ms with 30 s of work left, was stored as 30.3 s.
StoredAboveRaw ==
    /\ last.op = "recv" /\ last.dev = "d1" /\ now = 1200
    /\ device_state["d1"].current_phase = "work"
    /\ device_state["d1"].work_remain_time = 30300

(* -------------------- re-polls of one monitor iteration ----------------- *)
\* C38: one iteration of the re-poll monitor sends at most one re-poll
\* command: a monitor that puts a re-poll on the wire has sent none before
\* in the same iteration.
OneRepollPerTick ==
    [][\A t \in tasks :
         (SupercommandMonitorSend(t) /\ last' = Sent(t)) => t.sent = 0]_vars

(* --------------------- refresh after the countdown's end ---------------- *)
\* The device of this study works 2 s and pauses 2 s. Its work countdown
\* ends at DeviceZeroMs; it changes to the pause at DeviceFlipMs, 3 s later.
DeviceZeroMs == 1000
DeviceFlipMs == 4000
MaxRefreshClockMs == 4000
RefreshStepMs == 1000
MaxRefreshEvents == 4

\* The state confirmation the device sends at time t: its current state,
\* without timestamps.
DeviceState(t) ==
    IF t < DeviceFlipMs
    THEN Confirm("d1", Max(0, (DeviceZeroMs - t) \div MsPerSec), 2, 2, 2, 1)
    ELSE Confirm("d1", 2, 2, 2, 2, 0)

\* The device answers a re-poll of session d: the reply to an unanswered
\* re-poll arrives and is handled.
Answer(d) ==
    /\ device_state[d].waiting_for_response
    /\ Recv(d, DeviceState(now))

\* time.time() moves on by a second. The device is slow: its change of
\* phase comes later than a delayed re-poll the session has scheduled, so
\* the step that reaches DeviceFlipMs waits for a pending
\* _delayed_supercommand task.
Elapse ==
    /\ now + RefreshStepMs <= MaxRefreshClockMs
    /\ now + RefreshStepMs >= DeviceFlipMs => \A t \in tasks : t.kind # "dl"
    /\ now' = now + RefreshStepMs
    /\ last' = Step("clock", "", 0, 0)
    /\ UNCHANGED <<devices, ws_tasks, ws_connections, ws_connected, device_state, pc, backoff, sock, tasks, stopPc, stopGen, gen, retired, fails, eventsLeft, calls, callbacks, observed, crossed>>

RefreshInit == InitWith({"d1"}, MaxRefreshEvents, 0)

\* The steps of a session whose connection stays up and whose sends go
\* through, the device answering re-polls only.
RefreshNext ==
    \/ \E d \in Devices : StartWebsocket(d)
    \/ \E d \in Devices : ActivateOk(d)
    \/ \E d \in Devices : Open(d)
    \/ \E d \in Devices : InitSupercommand(d) /\ eventsLeft' = eventsLeft
    \/ \E d \in Devices : InitWorkTimeFrequency(d)
    \/ \E d \in Devices : Answer(d)
    \/ \E t \in tasks : HeartbeatTick(t)
    \/ \E t \in tasks : SupercommandMonitorTick(t)
    \/ \E t \in tasks : SupercommandMonitorSend(t) /\ eventsLeft' = eventsLeft
    \/ \E t \in tasks : CountdownMonitorTick(t)
    \/ \E t \in tasks : DelayedSupercommandWake(t)
    \/ \E t \in tasks : DelayedSupercommandSend(t) /\ eventsLeft' = eventsLeft
    \/ Elapse

\* Every task of the event loop gets its turn, every timer fires, every
\* answer arrives and time passes.
RefreshSpec ==
    /\ RefreshInit /\ [][RefreshNext]_vars
    /\ \A d \in Devices :
         /\ WF_vars(ActivateOk(d))
         /\ WF_vars(Open(d))
         /\ WF_vars(InitSupercommand(d) /\ eventsLeft' = eventsLeft)
         /\ WF_vars(InitWorkTimeFrequency(d))
         /\ WF_vars(Answer(d))
    /\ WF_vars(\E t \in tasks : HeartbeatTick(t))
    /\ WF_vars(\E t \in tasks : SupercommandMonitorTick(t))
    /\ WF_vars(\E t \in tasks : SupercommandMonitorSend(t) /\ eventsLeft' = eventsLeft)
    /\ WF_vars(\E t \in tasks : CountdownMonitorTick(t))
    /\ WF_vars(\E t \in tasks : DelayedSupercommandWake(t))
    /\ WF_vars(\E t \in tasks : DelayedSupercommandSend(t) /\ eventsLeft' = eventsLeft)
    /\ WF_vars(Elapse)

\* C39: while the connection stays up, the device answers every re-poll
\* with its current state and changes phase a finite time after its
\* countdown ended, a connected session eventually handles a confirmation
\* that shows the new phase (as long as the environment's budget of events
\* is not used up).
NewPhaseEventuallyConfirmed ==
    [](ws_connected["d1"] =>
         <>(device_state["d1"].current_phase = "pause" \/ eventsLeft = 0))

(* --------------------------- raising observers -------------------------- *)
\* Three observers registered before the session starts; the handler of the
\* second one raises.
RaiseInit == InitClient({"d1"}, MaxRearmEvents, 0, <<"o1", "bad", "o2">>)

RaiseSpec == RaiseInit /\ [][RearmNext]_vars

\* Observer o was called with the last broadcast.
Notified(o) == \E i \in 1..Len(observed.to) : observed.to[i] = o

\* C40: when a registered observer raises while a received message or a
\* COUNTDOWN message is broadcast, the supervisor stays in its receive loop
\* with its monitors, the countdown monitor stays alive, the state changes
\* of the message are kept, and every other registered observer, also one
\* registered after the raising one, is called with that message.
RaisingObserverContained ==
    [][/\ \A d \in Devices : \A m \in RearmFrames :
            (Recv(d, m) /\ Notifies(device_state, d, m)
             /\ \E o \in Raising : Registered(o)) =>
                /\ pc'[d] = "recv" /\ sock'[d] = "open" /\ ws_connected'[d]
                /\ tasks' = tasks
                /\ device_state' = HandleMessage(device_state, d, m, now)
                /\ observed'.msg = m
                /\ \A i \in 1..Len(callbacks) : Notified(callbacks[i])'
       /\ \A t \in tasks :
            (CountdownMonitorTick(t) /\ observed'.flip # observed.flip
             /\ \E o \in Raising : Registered(o)) =>
                /\ \E u \in tasks' : u.kind = "cd" /\ u.dev = t.dev /\ u.gen = t.gen
                /\ device_state' = device_state
                /\ \A i \in 1..Len(callbacks) : Notified(callbacks[i])']_vars

====
